---- MODULE Spec2Model ----
(***************************************************************************)
(* Model of the posting-detail pipeline of skilltri: the Skill Extractor   *)
(* (src/lib/openai.ts, parseJobWithAI), the Posting Detail Resolver        *)
(* (src/lib/saramin.ts, getJobDetail / getExternalJobDetail), the catalog  *)
(* lookup (src/lib/course-db.ts + the SQL function                         *)
(* find_courses_by_keywords) and the detail route with its Course Matcher  *)
(* (src/unnamed/part_000, GET / matchCoursesForSkills).                    *)
(*                                                                         *)
(* Strings that the code compares or rewrites character by character       *)
(* (skill keywords, display names, course keywords) are sequences of       *)
(* one-character strings, so that toLowerCase, replace(/[\s.]/g,'') and    *)
(* trim are computed, not assumed.  Page texts, whose only relevant        *)
(* operations are concatenation, whitespace collapsing, trimming, slicing  *)
(* and length, are run-length encoded: a sequence of runs [c, n].          *)
(***************************************************************************)
EXTENDS Integers, Sequences, FiniteSets, TLC

(***************************************************************************)
(* Bounds of the model.                                                    *)
(***************************************************************************)
MaxRawSkills == 3      \* entries of one LLM response, skills + preferredSkills (extractor runs)
MaxMatchSkills == 3    \* skill items in one posting, required + preferred (matcher runs)
MaxCourses == 6        \* rows of the course catalog
MaxDetailSkills == 1   \* entries of one LLM response (detail runs)
MaxDetailCourses == 1  \* rows of the course catalog (detail runs)

(***************************************************************************)
(* Program constants.                                                      *)
(***************************************************************************)
MinTextLength == 100        \* parseJobWithAI: text.length < 100
MaxTextLength == 8000       \* extractTextFromHtml: slice(0, 8000)
MinRelevance == 50          \* normalizeSkills: s.relevance >= 50
DefaultRelevance == 50      \* normalizeSkills: obj.relevance || 50
MaxCoursesPerSkill == 5     \* matchCoursesForSkills: slice(0, 5)

(***************************************************************************)
(* Character strings.                                                      *)
(***************************************************************************)
\* String.prototype.toLowerCase on one character of the model's alphabet.
LowerChar(c) ==
  CASE c = "R" -> "r"
    [] c = "N" -> "n"
    [] OTHER -> c

\* s.toLowerCase()
ToLowerCase(s) == [i \in DOMAIN s |-> LowerChar(s[i])]

\* the regular expression class \s (here: blank)
IsSpace(c) == c = " "

NotSpaceOrDot(c) == ~IsSpace(c) /\ c # "."

\* s.replace(/[\s.]/g, '')
StripSpaceDot(s) == SelectSeq(s, NotSpaceOrDot)

RECURSIVE TrimStart(_)
TrimStart(s) ==
  IF s # <<>> /\ IsSpace(Head(s)) THEN TrimStart(Tail(s)) ELSE s

RECURSIVE TrimEnd(_)
TrimEnd(s) ==
  IF s # <<>> /\ IsSpace(s[Len(s)]) THEN TrimEnd(SubSeq(s, 1, Len(s) - 1)) ELSE s

\* s.trim()
Trim(s) == TrimEnd(TrimStart(s))

\* the keyword form normalizeSkills gives a string: lower case, no blanks, no periods
KeywordOf(s) == StripSpaceDot(ToLowerCase(s))

\* a || b on strings: the empty string (like undefined) is falsy
OrElse(a, b) == IF a # <<>> THEN a ELSE b

\* all sequences over S of length at most n
SeqsUpTo(S, n) == UNION {[1..k -> S] : k \in 0..n}

(***************************************************************************)
(* Page texts, run-length encoded.  A run is [c |-> character, n |-> how   *)
(* many times]; "x" stands for any non-blank character, " " for any        *)
(* whitespace character.                                                   *)
(***************************************************************************)
Run(c, n) == [c |-> c, n |-> n]

RECURSIVE TextLength(_)
TextLength(t) == IF t = <<>> THEN 0 ELSE Head(t).n + TextLength(Tail(t))

\* append run r to text t, merging it into the last run when the character is the same
AppendRun(t, r) ==
  IF r.n = 0 THEN t
  ELSE IF t # <<>> /\ t[Len(t)].c = r.c
    THEN [t EXCEPT ![Len(t)].n = @ + r.n]
    ELSE Append(t, r)

RECURSIVE ConcatText(_, _)
ConcatText(a, b) ==
  IF b = <<>> THEN a ELSE ConcatText(AppendRun(a, Head(b)), Tail(b))

\* text.replace(/\s+/g, " "): every maximal run of whitespace becomes one blank
RECURSIVE CollapseSpaces(_)
CollapseSpaces(t) ==
  IF t = <<>> THEN <<>>
  ELSE LET rest == CollapseSpaces(Tail(t))
           r == Head(t)
       IN IF IsSpace(r.c)
            THEN IF rest # <<>> /\ IsSpace(Head(rest).c) THEN rest
                 ELSE <<Run(" ", 1)>> \o rest
            ELSE ConcatText(<<r>>, rest)

\* text.trim(): leading and trailing whitespace runs are dropped
RECURSIVE TrimTextStart(_)
TrimTextStart(t) ==
  IF t # <<>> /\ IsSpace(Head(t).c) THEN TrimTextStart(Tail(t)) ELSE t

RECURSIVE TrimTextEnd(_)
TrimTextEnd(t) ==
  IF t # <<>> /\ IsSpace(t[Len(t)].c)
    THEN TrimTextEnd(SubSeq(t, 1, Len(t) - 1)) ELSE t

TrimText(t) == TrimTextEnd(TrimTextStart(t))

\* text.slice(0, k)
RECURSIVE SliceText(_, _)
SliceText(t, k) ==
  IF t = <<>> \/ k <= 0 THEN <<>>
  ELSE IF Head(t).n >= k THEN <<Run(Head(t).c, k)>>
  ELSE <<Head(t)>> \o SliceText(Tail(t), k - Head(t).n)

(***************************************************************************)
(* Pages.  A page (an HTML document, or the markdown the reader service    *)
(* returns) is a sequence of nodes [tag, text]; tag "text" is bare text    *)
(* without markup.                                                         *)
(***************************************************************************)
\* $("script, style, nav, header, footer, aside, iframe, noscript").remove()
RemovedTags ==
  {"script", "style", "nav", "header", "footer", "aside", "iframe", "noscript"}

\* $("body").text() after the removal
RECURSIVE BodyText(_)
BodyText(html) ==
  IF html = <<>> THEN <<>>
  ELSE IF Head(html).tag \in RemovedTags THEN BodyText(Tail(html))
  ELSE ConcatText(Head(html).text, BodyText(Tail(html)))

\* extractTextFromHtml
ExtractTextFromHtml(html) ==
  SliceText(TrimText(CollapseSpaces(BodyText(html))), MaxTextLength)

(***************************************************************************)
(* Skill Extractor: src/lib/openai.ts, parseJobWithAI.                     *)
(*                                                                         *)
(* An entry of a skills array of the model's JSON is                       *)
(*   [kind |-> "string", s]                      a legacy string entry,    *)
(*   [kind |-> "object", display, keyword,                                 *)
(*      hasRelevance, relevance]                 a structured entry (an    *)
(*                                               absent display or keyword *)
(*                                               is the empty string),     *)
(*   [kind |-> "null"]                           a malformed entry (null). *)
(* A skills field is [isArray, items].                                     *)
(***************************************************************************)
StringEntry(s) == [kind |-> "string", s |-> s]

ObjectEntry(d, k, r) ==
  [kind |-> "object", display |-> d, keyword |-> k, hasRelevance |-> TRUE, relevance |-> r]

BareEntry(d, k) ==
  [kind |-> "object", display |-> d, keyword |-> k, hasRelevance |-> FALSE, relevance |-> 0]

NullEntry == [kind |-> "null"]

SkillItem(d, k, r) == [display |-> d, keyword |-> k, relevance |-> r]

\* obj.relevance || 50
RelevanceOrDefault(e) ==
  IF e.hasRelevance /\ e.relevance # 0 THEN e.relevance ELSE DefaultRelevance

\* the callback of skills.map(...) in normalizeSkills; reading a property of null throws
EntryThrows(e) == e.kind = "null"

ToSkillItem(e) ==
  IF e.kind = "string"
    THEN SkillItem(e.s, KeywordOf(e.s), DefaultRelevance)
    ELSE SkillItem(OrElse(e.display, e.keyword),
                   KeywordOf(OrElse(e.keyword, e.display)),
                   RelevanceOrDefault(e))

\* .filter((s) => s.keyword && s.relevance >= 50)
KeepByRelevance(s) == s.keyword # <<>> /\ s.relevance >= MinRelevance

\* mutant: the pool filter is missing
KeepByPoolIgnored(s, keywordPool) == TRUE

\* .filter((s) => !keywordPool || keywordPool.includes(s.keyword))
KeepByPool(s, keywordPool) == ~keywordPool.supplied \/ s.keyword \in keywordPool.items

\* insert x into the descending list s after every item that is not smaller (stable)
RECURSIVE InsertByRelevance(_, _)
InsertByRelevance(s, x) ==
  IF s = <<>> THEN <<x>>
  ELSE IF Head(s).relevance >= x.relevance
    THEN <<Head(s)>> \o InsertByRelevance(Tail(s), x)
    ELSE <<x>> \o s

\* mutant: the list is not sorted
SortByRelevanceMissing(s) == s

\* .sort((a, b) => b.relevance - a.relevance): stable, descending
RECURSIVE SortByRelevance(_)
SortByRelevance(s) ==
  IF s = <<>> THEN <<>>
  ELSE InsertByRelevance(SortByRelevance(SubSeq(s, 1, Len(s) - 1)), s[Len(s)])

\* normalizeSkills: [threw, list]
NormalizeSkills(skills, keywordPool) ==
  IF ~skills.isArray THEN [threw |-> FALSE, list |-> <<>>]
  ELSE IF \E i \in DOMAIN skills.items : EntryThrows(skills.items[i])
    THEN [threw |-> TRUE, list |-> <<>>]
  ELSE LET mapped == [i \in DOMAIN skills.items |-> ToSkillItem(skills.items[i])]
           byRelevance == SelectSeq(mapped, KeepByRelevance)
           InPool(s) == KeepByPool(s, keywordPool)
           byPool == SelectSeq(byRelevance, InPool)
       IN [threw |-> FALSE, list |-> SortByRelevance(byPool)]

\* the object of the early return and of the catch block
EmptyWithRaw(text) == [skills |-> <<>>, preferredSkills |-> <<>>, rawContent |-> text]

\* the object returned when the response has no content
EmptyNoContent == [skills |-> <<>>, preferredSkills |-> <<>>]

\* the object of the normal return; summary: parsed.summary || undefined
ParsedResult(req, pref, summary, text) ==
  LET base == [skills |-> req, preferredSkills |-> pref, rawContent |-> text]
  IN IF summary # "" THEN base @@ [summary |-> summary] ELSE base

(* parseJobWithAI(html, keywordPool), given what the completion call does:  *)
(* llm.kind is "throws" (the call rejects), "nocontent", "badjson"          *)
(* (JSON.parse throws) or "json" (llm.skills, llm.preferredSkills,          *)
(* llm.summary are the parsed fields).                                      *)
ParseJobWithAI(html, keywordPool, llm) ==
  LET text == ExtractTextFromHtml(html)
  IN IF text = <<>> \/ TextLength(text) < MinTextLength THEN EmptyWithRaw(text)
     ELSE IF llm.kind = "throws" THEN EmptyWithRaw(text)
     ELSE IF llm.kind = "nocontent" THEN EmptyNoContent
     ELSE IF llm.kind = "badjson" THEN EmptyWithRaw(text)
     ELSE LET req == NormalizeSkills(llm.skills, keywordPool)
              pref == NormalizeSkills(llm.preferredSkills, keywordPool)
          IN IF req.threw \/ pref.threw THEN EmptyWithRaw(text)
             ELSE ParsedResult(req.list, pref.list, llm.summary, text)

\* whether parseJobWithAI reaches the completion call at all
CallsLLM(html) == TextLength(ExtractTextFromHtml(html)) >= MinTextLength

(***************************************************************************)
(* State.                                                                  *)
(***************************************************************************)
VARIABLES
  pc,               \* position of the run
  keywordPool,      \* the keywordPool argument / the route's keywordPool: [supplied, items]
  \* one call of parseJobWithAI
  html,             \* the html argument
  llm,              \* what the completion call did (a local of parseJobWithAI: kept
                    \* until the caller's next step)
  parsed,           \* the JobDetailParsed object returned
  \* the detail route and its Course Matcher
  catalog,          \* the rows of the courses table, in title order
  jobDetail,        \* the route's jobDetail
  pass,             \* which call of matchCoursesForSkills runs: "required" or "preferred"
  skills,           \* matchCoursesForSkills: the skills argument
  allCourses,       \* matchCoursesForSkills: the lookup result
  courseToSkillMap, \* matchCoursesForSkills: course id -> [keyword, relevance]
  idx,              \* matchCoursesForSkills: index of the skill the second loop is at
  result,           \* matchCoursesForSkills: display name -> courses
  usedCourseIds,    \* the route's used-set
  requiredCourses,  \* the mapping returned for the required skills
  preferredCourses, \* the mapping returned for the preferred skills
  \* one request to the detail route
  request,          \* [hasUrl, hasTitle, isExternal]: the query parameters
  page,             \* getJobDetail: the aggregator page axios.get returned
  content,          \* the markdown the reader service returned for the posting
  events,           \* the events enqueued on the stream, in order
  closed,           \* the stream controller is closed
  fault,            \* an operation on the stream controller threw out of the handler
  cancelled,        \* the client cancelled the stream
  \* one request to the search route
  csn,              \* searchCompanyJobs: the company code, or NoCsn
  sampleJob,        \* searchCompanyJobs: the sample posting, or Null
  detection,        \* searchCompanyJobs: what checkIfExternalCompany returned
  attempt,          \* the sitemap url, the reader attempt or the list page the tier is at
  listPage,         \* the list page the aggregator returned last
  allJobs,          \* the jobs the tier at work has collected
  calls,            \* the outbound requests made, in order
  searchResult      \* the FilteredSearchResult searchCompanyJobs returned

extractVars == <<html, llm, parsed>>
passVars == <<pass, skills, allCourses, courseToSkillMap, idx, result>>
routeVars == <<catalog, jobDetail, usedCourseIds, requiredCourses, preferredCourses>>
detailVars == <<request, page, content, events, closed, fault>>
searchVars == <<csn, sampleJob, detection, attempt, listPage, allJobs, calls, searchResult>>
vars == <<pc, keywordPool, extractVars, passVars, routeVars, detailVars, cancelled, searchVars>>

NoLLM == [kind |-> "none"]
NoResult == [none |-> TRUE]
EmptyMap == [d \in {} |-> <<>>]

\* values of the variables a run does not use
IdlePass ==
  /\ pass = "none"
  /\ skills = <<>>
  /\ allCourses = <<>>
  /\ courseToSkillMap = EmptyMap
  /\ idx = 0
  /\ result = EmptyMap

IdleRoute ==
  /\ catalog = <<>>
  /\ jobDetail = NoResult
  /\ usedCourseIds = {}
  /\ requiredCourses = EmptyMap
  /\ preferredCourses = EmptyMap

IdleDetail ==
  /\ request = [none |-> TRUE]
  /\ page = [none |-> TRUE]
  /\ content = <<>>
  /\ events = <<>>
  /\ closed = FALSE
  /\ fault = FALSE

IdleExtract ==
  /\ html = <<>>
  /\ llm = NoLLM
  /\ parsed = NoResult

\* the company code before findCompanyCode ran, and a null company code
UnsetCsn == "unset"
NoCsn == "null"

IdleSearch ==
  /\ csn = UnsetCsn
  /\ sampleJob = NoResult
  /\ detection = NoResult
  /\ attempt = 0
  /\ listPage = <<>>
  /\ allJobs = <<>>
  /\ calls = <<>>
  /\ searchResult = NoResult

(***************************************************************************)
(* Inputs of the extractor runs.                                           *)
(***************************************************************************)
Node(tag, text) == [tag |-> tag, text |-> text]

ExtractHtmls ==
  { <<>>,
    <<Node("div", <<Run("x", 99)>>)>>,
    <<Node("div", <<Run("x", 100)>>)>>,
    <<Node("script", <<Run("x", 500)>>), Node("div", <<Run(" ", 3), Run("x", 40)>>)>>,
    <<Node("nav", <<Run("x", 30)>>),
      Node("div", <<Run(" ", 2), Run("x", 9000), Run(" ", 4)>>),
      Node("p", <<Run(" ", 1), Run("x", 7)>>)>> }

NoPool == [supplied |-> FALSE, items |-> {}]
Pool(items) == [supplied |-> TRUE, items |-> items]

ExtractPools == {NoPool, Pool({}), Pool({<<"r">>, <<"r", "n">>})}

RawRelevances == {0, 1, 49, 50, 90}

ExtractEntries ==
  {ObjectEntry(<<"R">>, <<"r">>, v) : v \in RawRelevances}
  \cup { StringEntry(<<"R", " ", "n">>),
         ObjectEntry(<<"N">>, <<"n">>, 80),
         ObjectEntry(<<"R", "n">>, <<"R", ".", "n">>, 70),
         BareEntry(<<"R", "n">>, <<>>),
         BareEntry(<<>>, <<>>),
         NullEntry }

Arr(items) == [isArray |-> TRUE, items |-> items]
NotArray == [isArray |-> FALSE, items |-> <<>>]

JsonResponse(req, pref, summary) ==
  [kind |-> "json", skills |-> req, preferredSkills |-> pref, summary |-> summary]

\* the JSON objects the model may answer with: at most n entries in all
Responses(entries, n) ==
  { JsonResponse(Arr(SubSeq(s, 1, k)), Arr(SubSeq(s, k + 1, Len(s))), summary) :
      <<s, k, summary>> \in
        { <<s, k, summary>> \in SeqsUpTo(entries, n) \X (0..n) \X {"", "summary"} :
            k <= Len(s) /\ (summary = "" => s = <<>>) } }
  \cup { JsonResponse(NotArray, NotArray, "summary") }

(***************************************************************************)
(* Extractor runs: one call of parseJobWithAI(html, keywordPool).          *)
(***************************************************************************)
InitExtract ==
  /\ pc = "parse"
  /\ html \in ExtractHtmls
  /\ keywordPool \in ExtractPools
  /\ llm = NoLLM
  /\ parsed = NoResult
  /\ IdlePass
  /\ IdleRoute
  /\ IdleDetail
  /\ cancelled = FALSE
  /\ IdleSearch

\* openai.ts 72-79: the text is too short, the completion is never requested
ParseShortText ==
  /\ pc = "parse"
  /\ ~CallsLLM(html)
  /\ parsed' = ParseJobWithAI(html, keywordPool, NoLLM)
  /\ pc' = "parsed"
  /\ UNCHANGED <<html, keywordPool, llm, passVars, routeVars, detailVars>>
  /\ UNCHANGED <<cancelled, searchVars>>

\* openai.ts 86-147, 179-187: the call rejects, answers without content, or with invalid JSON
ParseFailedCompletion ==
  /\ pc = "parse"
  /\ CallsLLM(html)
  /\ \E kind \in {"throws", "nocontent", "badjson"} :
       /\ llm' = [kind |-> kind]
       /\ parsed' = ParseJobWithAI(html, keywordPool, llm')
  /\ pc' = "parsed"
  /\ UNCHANGED <<html, keywordPool, passVars, routeVars, detailVars>>
  /\ UNCHANGED <<cancelled, searchVars>>

\* openai.ts 149-178: the call answers with a JSON object
ParseCompletion ==
  /\ pc = "parse"
  /\ CallsLLM(html)
  /\ \E response \in Responses(ExtractEntries, MaxRawSkills) :
       /\ llm' = response
       /\ parsed' = ParseJobWithAI(html, keywordPool, response)
  /\ pc' = "parsed"
  /\ UNCHANGED <<html, keywordPool, passVars, routeVars, detailVars>>
  /\ UNCHANGED <<cancelled, searchVars>>

NextExtract == ParseShortText \/ ParseFailedCompletion \/ ParseCompletion

SpecExtract == InitExtract /\ [][NextExtract]_vars

(***************************************************************************)
(* Properties of the extractor runs (SpecExtract).                         *)
(***************************************************************************)
IsFailureCompletion(l) ==
  \/ l.kind \in {"throws", "nocontent", "badjson"}
  \/ /\ l.kind = "json"
     /\ \E arr \in {l.skills, l.preferredSkills} :
          arr.isArray /\ \E i \in DOMAIN arr.items : arr.items[i].kind = "null"

SortedDescending(list) ==
  \A i, j \in DOMAIN list : i < j => list[i].relevance >= list[j].relevance

\* C7: every skill list parseJobWithAI returns is sorted by relevance, descending, and
\* holds only items of relevance 50 or more.
C7_SortedAndRelevant ==
  pc = "parsed" =>
    \A list \in {parsed.skills, parsed.preferredSkills} :
      /\ SortedDescending(list)
      /\ \A i \in DOMAIN list : list[i].relevance >= 50

\* a run in which the sort had to move an item: the model listed a 50 before a 90
C7_Witness ==
  /\ pc = "parsed"
  /\ llm.kind = "json"
  /\ Len(llm.skills.items) = 2
  /\ llm.skills.items[1].kind = "string"
  /\ llm.skills.items[2].kind = "object"
  /\ Len(parsed.skills) = 2
  /\ parsed.skills[1].relevance = 90
  /\ parsed.skills[2].relevance = 50

\* the model reported a relevance below 50 for this structured entry
ReportsLowRelevance(e) ==
  e.kind = "object" /\ e.hasRelevance /\ e.relevance \in 0..49

\* every item of out comes from an entry of its own that did not report a low relevance
FromEntriesNotLow(items, out) ==
  \E f \in [DOMAIN out -> DOMAIN items] :
    /\ \A a, b \in DOMAIN out : a # b => f[a] # f[b]
    /\ \A a \in DOMAIN out :
         LET e == items[f[a]]
         IN /\ ~ReportsLowRelevance(e)
            /\ e.kind # "null"
            /\ out[a].display = ToSkillItem(e).display
            /\ out[a].keyword = ToSkillItem(e).keyword

\* C8: a structured entry for which the model reports a relevance of 0..49 is discarded:
\* no item of the returned lists derives from it.
C8_LowRelevanceDiscarded ==
  (pc = "parsed" /\ llm.kind = "json" /\ ~IsFailureCompletion(llm)) =>
    /\ FromEntriesNotLow(llm.skills.items, parsed.skills)
    /\ FromEntriesNotLow(llm.preferredSkills.items, parsed.preferredSkills)

\* C9: on every extraction failure parseJobWithAI returns empty skill lists and, as
\* rawContent, the text extracted from its input.
C9_FailureKeepsRawContent ==
  (pc = "parsed" /\ IsFailureCompletion(llm)) =>
    /\ parsed.skills = <<>>
    /\ parsed.preferredSkills = <<>>
    /\ "rawContent" \in DOMAIN parsed
    /\ parsed.rawContent = ExtractTextFromHtml(html)

(***************************************************************************)
(* Course catalog: src/lib/course-db.ts and the SQL function               *)
(* find_courses_by_keywords.  A row is [id, keywords]; the catalog is the  *)
(* sequence of the rows in title order.                                    *)
(***************************************************************************)
NotSpace(c) == ~IsSpace(c)

\* extractCourseKeywords: k.toLowerCase().replace(/\s+/g, "").trim()
CourseKeywordOf(k) == Trim(SelectSeq(ToLowerCase(k), NotSpace))

ExtractCourseKeywords(raw) == [i \in DOMAIN raw |-> CourseKeywordOf(raw[i])]

\* keyword lists the model may answer with for a course
RawCourseKeywordLists ==
  { << <<"R", "n">> >>,
    << <<"r">>, <<"R", " ", "n">> >> }

CourseKeywordLists == {ExtractCourseKeywords(raw) : raw \in RawCourseKeywordLists}

\* ids are serial numbers given at insertion; here the title order is the reverse of it
Catalogs ==
  UNION { { [i \in 1..n |-> [id |-> n + 1 - i, keywords |-> ks[i]]] :
              ks \in [1..n -> CourseKeywordLists] } : n \in 0..MaxCourses }

\* getKeywordPool: the distinct keywords of all rows, [] when the query fails
GetKeywordPool(cat, ok) ==
  IF ~ok THEN Pool({})
  ELSE Pool(UNION {{cat[i].keywords[j] : j \in DOMAIN cat[i].keywords} : i \in DOMAIN cat})

\* insert row x into the list s, descending by match_count, after every row not smaller
RECURSIVE InsertByMatchCount(_, _)
InsertByMatchCount(s, x) ==
  IF s = <<>> THEN <<x>>
  ELSE IF Head(s).match_count >= x.match_count
    THEN <<Head(s)>> \o InsertByMatchCount(Tail(s), x)
    ELSE <<x>> \o s

\* ORDER BY match_count DESC, c.title  (the rows come in title order)
RECURSIVE SortByMatchCount(_)
SortByMatchCount(s) ==
  IF s = <<>> THEN <<>>
  ELSE InsertByMatchCount(SortByMatchCount(SubSeq(s, 1, Len(s) - 1)), s[Len(s)])

\* findCoursesByKeywords(keywords): the rpc find_courses_by_keywords, [] when it fails
FindCoursesByKeywords(cat, keywords, ok) ==
  IF keywords = <<>> \/ ~ok THEN <<>>
  ELSE LET normalized == {Trim(ToLowerCase(keywords[i])) : i \in DOMAIN keywords}
           Overlaps(c) == \E j \in DOMAIN c.keywords : c.keywords[j] \in normalized
           MatchCount(c) ==
             Cardinality({j \in DOMAIN c.keywords : ToLowerCase(c.keywords[j]) \in normalized})
           found == SelectSeq(cat, Overlaps)
           rows == [i \in DOMAIN found |->
                      [id |-> found[i].id, keywords |-> found[i].keywords,
                       match_count |-> MatchCount(found[i])]]
       IN SortByMatchCount(rows)

(***************************************************************************)
(* Course Matcher: src/unnamed/part_000, matchCoursesForSkills.            *)
(***************************************************************************)
\* a occurs in b as a substring
IsInfix(a, b) ==
  \E i \in 0..(Len(b) - Len(a)) : SubSeq(b, i + 1, i + Len(a)) = a

\* mutant: substring match, kw.toLowerCase().includes(skill.keyword)
CourseMatchesSkillBySubstring(course, skill) ==
  \E j \in DOMAIN course.keywords : IsInfix(skill.keyword, ToLowerCase(course.keywords[j]))

\* course.keywords.some((kw) => kw.toLowerCase() === skill.keyword)
CourseMatchesSkill(course, skill) ==
  \E j \in DOMAIN course.keywords : ToLowerCase(course.keywords[j]) = skill.keyword

\* skills.filter(...)
MatchingSkills(course, skillList) ==
  LET Matches(skill) == CourseMatchesSkill(course, skill)
  IN SelectSeq(skillList, Matches)

\* the callback of reduce: (current.relevance || 0) > (best.relevance || 0) ? current : best
Better(best, current) ==
  IF current.relevance > best.relevance THEN current ELSE best

\* matchingSkills.reduce(...) without an initial value, on a non-empty list
RECURSIVE ReduceBest(_, _)
ReduceBest(best, rest) ==
  IF rest = <<>> THEN best ELSE ReduceBest(Better(best, Head(rest)), Tail(rest))

BestSkill(matching) == ReduceBest(Head(matching), Tail(matching))

\* the first loop: course id -> [keyword, relevance] of the best matching skill
BuildCourseToSkillMap(courses, skillList) ==
  LET Matched(i) == MatchingSkills(courses[i], skillList) # <<>>
      ids == {courses[i].id : i \in {i \in DOMAIN courses : Matched(i)}}
      LastOf(id) ==
        CHOOSE i \in DOMAIN courses :
          /\ courses[i].id = id /\ Matched(i)
          /\ \A k \in DOMAIN courses : (courses[k].id = id /\ Matched(k)) => k <= i
  IN [id \in ids |->
        LET best == BestSkill(MatchingSkills(courses[LastOf(id)], skillList))
        IN [keyword |-> best.keyword, relevance |-> best.relevance]]

\* .filter(assigned?.keyword === skill.keyword)
AssignedTo(course, map, skill) ==
  course.id \in DOMAIN map /\ map[course.id].keyword = skill.keyword

\* mutant: the used-set is not consulted
NotUsedIgnored(course, used) == TRUE

\* .filter((course) => !usedCourseIds.has(course.id))
NotUsed(course, used) == course.id \notin used

\* matchingCourses.slice(0, 5)
FirstCourses(s) == SubSeq(s, 1, IF Len(s) < MaxCoursesPerSkill THEN Len(s) ELSE MaxCoursesPerSkill)

\* selectedCourses of one round of the second loop
SelectedCourses(courses, map, skill, used) ==
  LET Assigned(course) == AssignedTo(course, map, skill)
      Unused(course) == NotUsed(course, used)
  IN FirstCourses(SelectSeq(SelectSeq(courses, Assigned), Unused))

CourseIds(s) == {s[i].id : i \in DOMAIN s}

\* mutant: the selected courses are not marked used
MarkUsedForgotten(used, selected) == used

\* selectedCourses.forEach((course) => usedCourseIds.add(course.id))
MarkUsed(used, selected) == used \cup CourseIds(selected)

\* result[skill.display] = selectedCourses
PutResult(map, display, selected) ==
  [d \in DOMAIN map \cup {display} |-> IF d = display THEN selected ELSE map[d]]

(***************************************************************************)
(* Matcher runs: the detail route from getKeywordPool on, for a posting    *)
(* whose page is fetched and has text (src/unnamed/part_000, 43-96).       *)
(***************************************************************************)
\* the posting page of the matcher runs
MatchPage == <<Node("div", <<Run("x", 300)>>)>>

MatchEntries ==
  { ObjectEntry(<<"R">>, <<"r">>, 90),
    ObjectEntry(<<"R", "n">>, <<"r", "n">>, 90),
    ObjectEntry(<<"R">>, <<"r", "n">>, 80) }

InitMatch ==
  /\ pc = "pool"
  /\ keywordPool = NoPool
  /\ IdleExtract
  /\ IdlePass
  /\ IdleDetail
  /\ catalog \in Catalogs
  /\ jobDetail = NoResult
  /\ usedCourseIds = {}
  /\ requiredCourses = EmptyMap
  /\ preferredCourses = EmptyMap
  /\ cancelled = FALSE
  /\ IdleSearch

\* part_000 43: const keywordPool = await getKeywordPool()
LoadKeywordPool ==
  /\ pc = "pool"
  /\ \E ok \in BOOLEAN : keywordPool' = GetKeywordPool(catalog, ok)
  /\ pc' = "detail"
  /\ UNCHANGED <<extractVars, passVars, routeVars, detailVars>>
  /\ UNCHANGED <<cancelled, searchVars>>

\* part_000 49-72 with saramin.ts 552-556: the posting is parsed, the used-set is created
ParsePosting ==
  /\ pc = "detail"
  /\ \E response \in Responses(MatchEntries, MaxMatchSkills) :
       /\ llm' = response
       /\ jobDetail' =
            ParseJobWithAI(MatchPage, keywordPool, response) @@ [isExternal |-> FALSE]
  /\ usedCourseIds' = {}
  /\ pass' = "required"
  /\ pc' = "match"
  /\ UNCHANGED <<keywordPool, html, parsed, skills, allCourses, courseToSkillMap, idx, result,
                 catalog, requiredCourses, preferredCourses, detailVars>>
  /\ UNCHANGED <<cancelled, searchVars>>

\* the skills argument of the call that is about to run (part_000 73, 74)
PassSkills == IF pass = "required" THEN jobDetail.skills ELSE jobDetail.preferredSkills

\* the route takes the mapping a call returned (part_000 73, 74) and goes on
Returned(map) ==
  IF pass = "required"
    THEN /\ requiredCourses' = map
         /\ pass' = "preferred"
         /\ pc' = "match"
         /\ UNCHANGED preferredCourses
    ELSE /\ preferredCourses' = map
         /\ pc' = "complete"
         /\ UNCHANGED <<pass, requiredCourses>>

\* part_000 124: if (skills.length === 0) return {}
MatchNothing ==
  /\ pc = "match"
  /\ PassSkills = <<>>
  /\ skills' = <<>>
  /\ allCourses' = <<>>
  /\ courseToSkillMap' = EmptyMap
  /\ idx' = 0
  /\ result' = EmptyMap
  /\ Returned(EmptyMap)
  /\ llm' = NoLLM
  /\ UNCHANGED <<keywordPool, html, parsed, catalog, jobDetail, usedCourseIds, detailVars>>
  /\ UNCHANGED <<cancelled, searchVars>>

\* part_000 126-153: the lookup and the first loop
MatchLookup ==
  /\ pc = "match"
  /\ PassSkills # <<>>
  /\ skills' = PassSkills
  /\ \E ok \in BOOLEAN :
       allCourses' =
         FindCoursesByKeywords(catalog, [i \in DOMAIN PassSkills |-> PassSkills[i].keyword], ok)
  /\ courseToSkillMap' = BuildCourseToSkillMap(allCourses', PassSkills)
  /\ idx' = 1
  /\ result' = EmptyMap
  /\ pc' = "assign"
  /\ llm' = NoLLM
  /\ UNCHANGED <<keywordPool, html, parsed, pass, routeVars, detailVars>>
  /\ UNCHANGED <<cancelled, searchVars>>

\* part_000 156-168: one round of the second loop
MatchSkill ==
  /\ pc = "assign"
  /\ idx <= Len(skills)
  /\ LET skill == skills[idx]
         selected == SelectedCourses(allCourses, courseToSkillMap, skill, usedCourseIds)
     IN /\ usedCourseIds' = MarkUsed(usedCourseIds, selected)
        /\ result' = PutResult(result, skill.display, selected)
  /\ idx' = idx + 1
  /\ UNCHANGED <<pc, keywordPool, extractVars, pass, skills, allCourses, courseToSkillMap,
                 catalog, jobDetail, requiredCourses, preferredCourses, detailVars>>
  /\ UNCHANGED <<cancelled, searchVars>>

\* part_000 170: return result
MatchReturn ==
  /\ pc = "assign"
  /\ idx > Len(skills)
  /\ Returned(result)
  /\ UNCHANGED <<keywordPool, extractVars, skills, allCourses, courseToSkillMap, idx, result,
                 catalog, jobDetail, usedCourseIds, detailVars>>
  /\ UNCHANGED <<cancelled, searchVars>>

NextMatch ==
  \/ LoadKeywordPool
  \/ ParsePosting
  \/ MatchNothing
  \/ MatchLookup
  \/ MatchSkill
  \/ MatchReturn

SpecMatch == InitMatch /\ [][NextMatch]_vars

(***************************************************************************)
(* Properties of the matcher runs (SpecMatch).                             *)
(***************************************************************************)
AllCourseIds(map) == UNION {CourseIds(map[d]) : d \in DOMAIN map}

NoSharedCourse(map) ==
  \A d1, d2 \in DOMAIN map :
    d1 # d2 => CourseIds(map[d1]) \cap CourseIds(map[d2]) = {}

\* C1: the mapping one call of matchCoursesForSkills builds and returns never holds the
\* same course id under two different display names.
C1_NoCourseUnderTwoNames ==
  /\ NoSharedCourse(result)
  /\ NoSharedCourse(requiredCourses)
  /\ NoSharedCourse(preferredCourses)

\* two skills of one list share a keyword, have different names, and both got courses
C1_Witness ==
  /\ pc = "complete"
  /\ Len(jobDetail.skills) = 2
  /\ jobDetail.skills[1].keyword = jobDetail.skills[2].keyword
  /\ jobDetail.skills[1].display # jobDetail.skills[2].display
  /\ requiredCourses[jobDetail.skills[1].display] # <<>>
  /\ requiredCourses[jobDetail.skills[2].display] # <<>>

\* C2: required skills matched first, preferred skills second, against one used-set: no
\* course id is returned for both.
C2_RequiredPreferredDisjoint ==
  pc = "complete" =>
    AllCourseIds(requiredCourses) \cap AllCourseIds(preferredCourses) = {}

\* a required and a preferred skill share a keyword and both got courses
C2_Witness ==
  /\ pc = "complete"
  /\ AllCourseIds(requiredCourses) # {}
  /\ AllCourseIds(preferredCourses) # {}
  /\ \E i \in DOMAIN jobDetail.skills, j \in DOMAIN jobDetail.preferredSkills :
       jobDetail.skills[i].keyword = jobDetail.preferredSkills[j].keyword

\* the skill the list under display name d was built for: the last one of the first n
\* skills that carries the name
LastSkillNamed(list, n, d) ==
  list[CHOOSE i \in 1..n :
         /\ list[i].display = d
         /\ \A k \in 1..n : list[k].display = d => k <= i]

HasKeywordOf(course, skill) ==
  \E j \in DOMAIN course.keywords :
    ToLowerCase(course.keywords[j]) = ToLowerCase(skill.keyword)

FirstEligible(courses, eligible, n) ==
  LET Early(p) == p \in eligible /\ Cardinality({q \in eligible : q <= p}) <= n
  IN [k \in 1..Cardinality({p \in DOMAIN courses : Early(p)}) |->
        courses[CHOOSE p \in DOMAIN courses :
                  Early(p) /\ Cardinality({q \in eligible : q <= p}) = k]]

RECURSIVE UsedBeforeSkill(_)
\* the list C4 states for the i-th skill of the required pass
ClaimedList(i) ==
  LET eligible ==
        {p \in DOMAIN allCourses :
           /\ allCourses[p].id \in DOMAIN courseToSkillMap
           /\ courseToSkillMap[allCourses[p].id].keyword = skills[i].keyword
           /\ allCourses[p].id \notin UsedBeforeSkill(i)}
  IN FirstEligible(allCourses, eligible, 5)

\* the used-set when the i-th skill of the required pass is taken
UsedBeforeSkill(i) ==
  IF i = 1 THEN {} ELSE UsedBeforeSkill(i - 1) \cup CourseIds(ClaimedList(i - 1))

\* C4: for each skill, in input order, the list returned is the first at most 5 courses,
\* in the lookup's order, among the courses owned by the skill and not in the used-set at
\* that moment; their ids are then added to the used-set.
C4_ListPerSkill ==
  (pc = "match" /\ pass = "preferred" /\ skills # <<>>) =>
    /\ \A i \in DOMAIN skills : requiredCourses[skills[i].display] = ClaimedList(i)
    /\ usedCourseIds = UsedBeforeSkill(Len(skills) + 1)

\* the owner C5 states for a course: of the skills that match it, the first in input
\* order among those of the highest relevance
ClaimedOwner(course) ==
  LET matching == {k \in DOMAIN skills : HasKeywordOf(course, skills[k])}
      top == {k \in matching : \A m \in matching : skills[k].relevance >= skills[m].relevance}
  IN skills[CHOOSE k \in top : \A m \in top : k <= m]

\* C5: each course of the lookup result is owned by the keyword of its most relevant
\* matching skill (the first one on a tie), and a course is never returned under a skill
\* when another skill that matches it is strictly more relevant.
C5_MostRelevantSkillOwns ==
  pc = "assign" =>
    /\ \A p \in DOMAIN allCourses :
         /\ allCourses[p].id \in DOMAIN courseToSkillMap
         /\ courseToSkillMap[allCourses[p].id].keyword = ClaimedOwner(allCourses[p]).keyword
    /\ \A d \in DOMAIN result : \A i \in DOMAIN result[d] :
         \A k \in DOMAIN skills :
           HasKeywordOf(result[d][i], skills[k]) =>
             skills[k].relevance <= LastSkillNamed(skills, idx - 1, d).relevance

\* C6: with a keyword pool supplied, every skill parseJobWithAI returns has a keyword of
\* the pool, so every keyword the detail route hands to the Course Matcher is in the
\* pool loaded at the start of the request.
C6_KeywordsInPool ==
  /\ (pc # "pool" /\ pc # "detail") =>
       /\ keywordPool.supplied
       /\ \A list \in {jobDetail.skills, jobDetail.preferredSkills} :
            \A i \in DOMAIN list : list[i].keyword \in keywordPool.items
  /\ \A i \in DOMAIN skills : skills[i].keyword \in keywordPool.items

\* the model named a keyword outside the pool next to one inside it, and the matcher got
\* the one inside only
C6_Witness ==
  /\ pc = "match"
  /\ pass = "required"
  /\ llm.kind = "json"
  /\ \E i \in DOMAIN llm.skills.items :
       KeywordOf(llm.skills.items[i].keyword) \notin keywordPool.items
  /\ jobDetail.skills # <<>>

(***************************************************************************)
(* Posting Detail Resolver (src/lib/saramin.ts, getJobDetail and           *)
(* getExternalJobDetail), the reader service (fetchWithJina and its        *)
(* callers) and the detail route (src/unnamed/part_000, GET).              *)
(***************************************************************************)
MinReaderLength == 100      \* fetchWithJina: response.data.length > 100
MinContentLength == 100     \* content.length < 100 in the callers of fetchWithJina
MinExternalLength == 500    \* getJobDetail: externalContent.length > 500

Null == [null |-> TRUE]

\* length of the markup of one node in the raw document
MarkupLength(tag) ==
  CASE tag = "text" -> 0
    [] tag = "p" -> 7
    [] tag = "script" -> 17
    [] OTHER -> 11

\* .length of a raw document
RECURSIVE RawLength(_)
RawLength(doc) ==
  IF doc = <<>> THEN 0
  ELSE MarkupLength(Head(doc).tag) + TextLength(Head(doc).text) + RawLength(Tail(doc))

\* fetchWithJina: the data of the last attempt, or "" when it failed or is too short
FetchWithJina(data, failed) ==
  IF ~failed /\ data # <<>> /\ RawLength(data) > MinReaderLength THEN data ELSE <<>>

\* fetchExternalJobContent
FetchExternalJobContent(data, failed) ==
  LET fetched == FetchWithJina(data, failed)
  IN IF fetched = <<>> \/ RawLength(fetched) < MinContentLength THEN <<>> ELSE fetched

\* fetchExternalJobDetail: the list page, the detail url found in it or not, the detail page
FetchExternalJobDetail(list, listFailed, found, data, failed) ==
  LET listContent == FetchWithJina(list, listFailed)
      detailContent == FetchWithJina(data, failed)
  IN IF listContent = <<>> \/ RawLength(listContent) < MinContentLength THEN <<>>
     ELSE IF ~found THEN <<>>
     ELSE IF detailContent = <<>> \/ RawLength(detailContent) < MinContentLength THEN <<>>
     ELSE detailContent

\* getJobDetail: html.includes(one of the markers) and extractExternalUrl(html) found a url
PageIsExternal(pg) == pg.homepage
PageExternalUrl(pg) == pg.dataHref

\* { ...result, isExternal: true, externalUrl }
ExternalDetail(res) == res @@ [isExternal |-> TRUE, externalUrl |-> "external"]

\* { ...result, isExternal: false }
InternalDetail(res) == res @@ [isExternal |-> FALSE]

\* matchCoursesForSkills as one call: the second loop from the i-th skill on
RECURSIVE AssignLoop(_, _, _, _, _, _)
AssignLoop(skillList, i, courses, map, used, res) ==
  IF i > Len(skillList) THEN [result |-> res, used |-> used]
  ELSE LET selected == SelectedCourses(courses, map, skillList[i], used)
       IN AssignLoop(skillList, i + 1, courses, map, MarkUsed(used, selected),
                     PutResult(res, skillList[i].display, selected))

\* matchCoursesForSkills(skills, usedCourseIds): [result, used]
MatchCoursesForSkills(skillList, used, cat, ok) ==
  IF skillList = <<>> THEN [result |-> EmptyMap, used |-> used]
  ELSE LET courses ==
             FindCoursesByKeywords(cat, [i \in DOMAIN skillList |-> skillList[i].keyword], ok)
       IN AssignLoop(skillList, 1, courses, BuildCourseToSkillMap(courses, skillList), used,
                     EmptyMap)

\* sendEvent: enqueue on a closed controller throws and is ignored
Send(evs, isClosed, e) == IF isClosed THEN evs ELSE Append(evs, e)

Progress(step) == [event |-> "progress", step |-> step]

\* a mutant of ErrorEvent: the error is reported as one more progress event
ErrorEventAsProgress(message) == [event |-> "progress", message |-> message]

ErrorEvent(message) == [event |-> "error", message |-> message]

\* the jobDetail object of the complete event (part_000 83-90); JSON drops undefined fields
EventJobDetail(detail) ==
  LET kept == {"summary", "rawContent", "isExternal", "externalUrl"} \cap DOMAIN detail
  IN [skills |-> detail.skills, preferredSkills |-> detail.preferredSkills]
       @@ [f \in kept |-> detail[f]]

CompleteEvent(detail, required, preferred) ==
  [event |-> "complete", success |-> TRUE, jobDetail |-> EventJobDetail(detail),
   matchedCourses |-> [required |-> required, preferred |-> preferred]]

RECURSIVE SendAll(_, _, _)
SendAll(evs, isClosed, list) ==
  IF list = <<>> THEN evs ELSE SendAll(Send(evs, isClosed, Head(list)), isClosed, Tail(list))

(***************************************************************************)
(* Detail runs: one request to the detail route.                           *)
(***************************************************************************)
Page(nodes, homepage, dataHref) ==
  [nodes |-> nodes, homepage |-> homepage, dataHref |-> dataHref]

\* bodies of the aggregator pages axios.get may return
AggregatorBodies ==
  { <<>>,
    <<Node("script", <<Run("x", 200)>>)>>,
    <<Node("div", <<Run("x", 50)>>)>>,
    <<Node("div", <<Run("x", 300)>>)>> }

AggregatorPages ==
  {Page(b, h, d) : <<b, h, d>> \in AggregatorBodies \X BOOLEAN \X BOOLEAN}

\* documents the reader service may answer with
ReaderDocs ==
  { <<>>,
    <<Node("text", <<Run("x", 60)>>)>>,
    <<Node("text", <<Run(" ", 150)>>)>>,
    <<Node("text", <<Run("x", 120)>>)>>,
    <<Node("script", <<Run("x", 600)>>)>>,
    <<Node("text", <<Run("x", 600)>>)>> }

DetailEntries ==
  { ObjectEntry(<<"R">>, <<"r">>, 90),
    ObjectEntry(<<"R", "n">>, <<"r", "n">>, 80) }

DetailLLM ==
  {[kind |-> k] : k \in {"throws", "nocontent", "badjson"}}
    \cup Responses(DetailEntries, MaxDetailSkills)

DetailCatalogs == {c \in Catalogs : Len(c) <= MaxDetailCourses}

InitDetail ==
  /\ pc = "request"
  /\ request \in [hasUrl : BOOLEAN, hasTitle : BOOLEAN, isExternal : BOOLEAN]
  /\ catalog \in DetailCatalogs
  /\ keywordPool = NoPool
  /\ IdleExtract
  /\ IdlePass
  /\ jobDetail = NoResult
  /\ usedCourseIds = {}
  /\ requiredCourses = EmptyMap
  /\ preferredCourses = EmptyMap
  /\ page = [none |-> TRUE]
  /\ content = <<>>
  /\ events = <<>>
  /\ closed = FALSE
  /\ fault = FALSE
  /\ cancelled = FALSE
  /\ IdleSearch

\* part_000 32-40: the url check and the first progress event
RouteOpen ==
  /\ pc = "request"
  /\ IF ~request.hasUrl
       THEN /\ events' = Send(events, closed, ErrorEvent("no url"))
            /\ closed' = TRUE
            /\ pc' = "end"
       ELSE /\ events' = Send(events, closed, Progress(0))
            /\ pc' = "pool"
            /\ UNCHANGED closed
  /\ UNCHANGED <<keywordPool, extractVars, passVars, routeVars, request, page, content, fault>>
  /\ UNCHANGED <<cancelled, searchVars>>

\* part_000 43-51: the keyword pool, the second progress event, the resolver is called
RouteLoadPool ==
  /\ pc = "pool"
  /\ \E ok \in BOOLEAN : keywordPool' = GetKeywordPool(catalog, ok)
  /\ events' = Send(events, closed, Progress(1))
  /\ pc' = IF request.isExternal THEN "reader" ELSE "aggregator"
  /\ UNCHANGED <<extractVars, passVars, routeVars, request, page, content, closed, fault>>
  /\ UNCHANGED <<cancelled, searchVars>>

\* saramin.ts 479-502, 557-560: getJobDetail fetches the aggregator page
FetchAggregatorPage ==
  /\ pc = "aggregator"
  /\ \/ /\ jobDetail' = Null
        /\ pc' = "resolved"
        /\ UNCHANGED page
     \/ \E pg \in AggregatorPages :
          /\ page' = pg
          /\ pc' = IF PageIsExternal(pg) /\ PageExternalUrl(pg) /\ request.hasTitle
                     THEN "external" ELSE "parse_page"
          /\ UNCHANGED jobDetail
  /\ UNCHANGED <<keywordPool, extractVars, passVars, catalog, usedCourseIds, requiredCourses,
                 preferredCourses, request, content, events, closed, fault>>
  /\ UNCHANGED <<cancelled, searchVars>>

\* saramin.ts 504-516: getJobDetail asks the reader for the title-matched external page
FetchExternalPage ==
  /\ pc = "external"
  /\ \E list \in ReaderDocs, data \in ReaderDocs, found \in BOOLEAN, failed \in BOOLEAN :
       content' = FetchExternalJobDetail(list, FALSE, found, data, failed)
  /\ pc' = IF content' # <<>> /\ RawLength(content') > MinExternalLength
             THEN "parse_external" ELSE "parse_page"
  /\ UNCHANGED <<keywordPool, extractVars, passVars, routeVars, request, page, events, closed,
                 fault>>
  /\ UNCHANGED <<cancelled, searchVars>>

\* saramin.ts 519-527: the external page is parsed; it is the result if it has skills
ParseExternalContent ==
  /\ pc = "parse_external"
  /\ \E l \in DetailLLM :
       LET res == ParseJobWithAI(content, keywordPool, l)
       IN IF res.skills # <<>> \/ res.preferredSkills # <<>>
            THEN jobDetail' = ExternalDetail(res) /\ pc' = "resolved"
            ELSE pc' = "parse_page" /\ UNCHANGED jobDetail
  /\ UNCHANGED <<keywordPool, extractVars, passVars, catalog, usedCourseIds, requiredCourses,
                 preferredCourses, detailVars>>
  /\ UNCHANGED <<cancelled, searchVars>>

\* saramin.ts 529-556: the aggregator page is parsed
ParseAggregatorPage ==
  /\ pc = "parse_page"
  /\ \E l \in DetailLLM :
       LET res == ParseJobWithAI(page.nodes, keywordPool, l)
       IN jobDetail' = IF PageIsExternal(page) /\ PageExternalUrl(page)
                         THEN ExternalDetail(res) ELSE InternalDetail(res)
  /\ pc' = "resolved"
  /\ UNCHANGED <<keywordPool, extractVars, passVars, catalog, usedCourseIds, requiredCourses,
                 preferredCourses, detailVars>>
  /\ UNCHANGED <<cancelled, searchVars>>

\* saramin.ts 579-594, 609-612: getExternalJobDetail asks the reader for the posting
FetchReaderContent ==
  /\ pc = "reader"
  /\ \E data \in ReaderDocs, failed \in BOOLEAN :
       content' = FetchExternalJobContent(data, failed)
  /\ IF content' = <<>> \/ RawLength(content') < MinContentLength
       THEN jobDetail' = Null /\ pc' = "resolved"
       ELSE pc' = "parse_content" /\ UNCHANGED jobDetail
  /\ UNCHANGED <<keywordPool, extractVars, passVars, catalog, usedCourseIds, requiredCourses,
                 preferredCourses, request, page, events, closed, fault>>
  /\ UNCHANGED <<cancelled, searchVars>>

\* saramin.ts 596-608: the reader's markdown is parsed
ParseReaderContent ==
  /\ pc = "parse_content"
  /\ \E l \in DetailLLM :
       jobDetail' = ExternalDetail(ParseJobWithAI(content, keywordPool, l))
  /\ pc' = "resolved"
  /\ UNCHANGED <<keywordPool, extractVars, passVars, catalog, usedCourseIds, requiredCourses,
                 preferredCourses, detailVars>>
  /\ UNCHANGED <<cancelled, searchVars>>

\* part_000 53-57, 100-102: no detail: an error event, close(), and close() again in finally
RouteNoDetail ==
  /\ pc = "resolved"
  /\ jobDetail = Null
  /\ events' = Send(events, closed, ErrorEvent("no detail"))
  /\ closed' = TRUE
  /\ fault' = TRUE
  /\ pc' = "end"
  /\ UNCHANGED <<keywordPool, extractVars, passVars, routeVars, request, page, content>>
  /\ UNCHANGED <<cancelled, searchVars>>

\* part_000 59-96, 100-102: the progress events, the two matching passes, the complete
\* event, and close() in finally, which throws on a stream the client cancelled
RouteComplete ==
  /\ pc = "resolved"
  /\ jobDetail # Null
  /\ \E ok1 \in BOOLEAN, ok2 \in BOOLEAN :
       LET required == MatchCoursesForSkills(jobDetail.skills, {}, catalog, ok1)
           preferred ==
             MatchCoursesForSkills(jobDetail.preferredSkills, required.used, catalog, ok2)
       IN /\ requiredCourses' = required.result
          /\ preferredCourses' = preferred.result
          /\ usedCourseIds' = preferred.used
          /\ events' =
               SendAll(events, closed,
                       <<Progress(2), Progress(3), Progress(4), Progress(5), Progress(6),
                         CompleteEvent(jobDetail, required.result, preferred.result)>>)
  /\ closed' = TRUE
  /\ fault' = closed
  /\ pc' = "end"
  /\ UNCHANGED <<keywordPool, extractVars, passVars, catalog, jobDetail, request, page,
                 content>>
  /\ UNCHANGED <<cancelled, searchVars>>

\* the client cancels the stream while the handler awaits an outbound call (part_000
\* 19-20: the stream has no cancel callback, the handler goes on)
DetailAwaits ==
  {"pool", "aggregator", "external", "parse_external", "parse_page", "reader",
   "parse_content", "resolved"}

ClientCancel ==
  /\ pc \in DetailAwaits
  /\ ~closed
  /\ closed' = TRUE
  /\ cancelled' = TRUE
  /\ UNCHANGED <<pc, keywordPool, extractVars, passVars, routeVars, request, page, content,
                 events, fault, searchVars>>

NextDetail ==
  \/ ClientCancel
  \/ RouteOpen
  \/ RouteLoadPool
  \/ FetchAggregatorPage
  \/ FetchExternalPage
  \/ ParseExternalContent
  \/ ParseAggregatorPage
  \/ FetchReaderContent
  \/ ParseReaderContent
  \/ RouteNoDetail
  \/ RouteComplete

SpecDetail == InitDetail /\ [][NextDetail]_vars

(***************************************************************************)
(* Properties of the detail runs (SpecDetail).                             *)
(***************************************************************************)
\* every text the request extracted is empty
ExtractedTextEmpty ==
  IF request.isExternal
    THEN ExtractTextFromHtml(content) = <<>>
    ELSE /\ "nodes" \in DOMAIN page
         /\ ExtractTextFromHtml(page.nodes) = <<>>
         /\ ExtractTextFromHtml(content) = <<>>

EndsEmptyButSuccessful ==
  /\ events # <<>>
  /\ LET last == events[Len(events)]
     IN /\ last.event = "complete"
        /\ last.success
        /\ last.jobDetail.skills = <<>>
        /\ last.jobDetail.preferredSkills = <<>>
        /\ "rawContent" \in DOMAIN last.jobDetail
        /\ last.jobDetail.rawContent = <<>>

\* C10: a detail request for a posting whose extracted text is empty ends with a complete
\* event, success true, no skills, and the (empty) extracted text as rawContent, for an
\* internal posting and for an external one.
C10_EmptyTextCompletes ==
  (pc = "end" /\ request.hasUrl /\ ~cancelled /\ ExtractedTextEmpty)
    => EndsEmptyButSuccessful

(***************************************************************************)
(* Listing acquisition (src/lib/saramin.ts, src/unnamed/part_005 and the   *)
(* reader library in src/app/api/job-with-courses/route.ts).               *)
(*                                                                         *)
(* A url is a sequence of segments: an origin ("https://h"), the bare      *)
(* letters "http", a directory ("/jobs/"), a word ("x1", "dev"), a query   *)
(* ("?q").  The career markers of a condition text are two syllables each, *)
(* written with one letter per syllable.                                   *)
(***************************************************************************)
MaxPages == 20            \* crawlCompanyJobs: const maxPages = 20
LastPageBelow == 5        \* crawlCompanyJobs: if (jobs.length < 5) break
SitemapUrlCount == 5      \* fetchJobsFromSitemap: the five sitemap urls tried
ListRetries == 2          \* fetchExternalJobList: fetchWithJina(externalUrl, 2, ...)

AggregatorOrigin == "https://www.saramin.co.kr"
Origins == {"https://h", AggregatorOrigin}
Words == {"x1", "dev"}

\* s.startsWith("http")
StartsWithHttp(u) == u # <<>> /\ (u[1] \in Origins \/ u[1] = "http")

\* s matches https?://...
StartsWithScheme(u) == u # <<>> /\ u[1] \in Origins

\* new URL(u) does not throw
UrlParses(u) == StartsWithScheme(u)

\* parseJobsFromHtml 114-116
LinkOf(linkPath) ==
  IF StartsWithHttp(linkPath) THEN linkPath ELSE <<AggregatorOrigin>> \o linkPath

CareerMarker == <<"g", "r">>     \* "경력"
NewGradMarker == <<"s", "i">>    \* "신입"
AnyMarker == <<"m", "k">>        \* "무관"
InternMarker == <<"n", "t">>     \* "인턴"

\* texts.map(trim).filter(non-empty)
RECURSIVE TrimmedNonEmpty(_)
TrimmedNonEmpty(texts) ==
  IF texts = <<>> THEN <<>>
  ELSE LET t == Trim(Head(texts))
       IN IF t = <<>> THEN TrimmedNonEmpty(Tail(texts))
          ELSE <<t>> \o TrimmedNonEmpty(Tail(texts))

\* conditions.join(" ")
RECURSIVE JoinWithSpace(_)
JoinWithSpace(texts) ==
  IF texts = <<>> THEN <<>>
  ELSE IF Len(texts) = 1 THEN texts[1]
  ELSE texts[1] \o <<" ">> \o JoinWithSpace(Tail(texts))

\* a mutant of IsExperienceOnly: the intern marker does not count
IsExperienceOnlyNoIntern(conditions) ==
  LET experienceText == JoinWithSpace(conditions)
  IN /\ IsInfix(CareerMarker, experienceText)
     /\ ~IsInfix(NewGradMarker, experienceText)
     /\ ~IsInfix(AnyMarker, experienceText)

\* parseJobsFromHtml 137-142
IsExperienceOnly(conditions) ==
  LET experienceText == JoinWithSpace(conditions)
  IN /\ IsInfix(CareerMarker, experienceText)
     /\ ~IsInfix(NewGradMarker, experienceText)
     /\ ~IsInfix(AnyMarker, experienceText)
     /\ ~IsInfix(InternMarker, experienceText)

\* one .list_item of an aggregator list page
ListItem(spanText, linkText, href, txts) ==
  [spanText |-> spanText, linkText |-> linkText, href |-> href, txts |-> txts]

\* parseJobsFromHtml 110-111
TitleOf(item) == OrElse(Trim(item.spanText), Trim(item.linkText))

\* parseJobsFromHtml 145-153
StubOf(item) ==
  [title |-> TitleOf(item), link |-> LinkOf(item.href),
   requirements |-> TrimmedNonEmpty(item.txts)]

\* parseJobsFromHtml 144
KeepsItem(item) == TitleOf(item) # <<>> /\ ~IsExperienceOnly(TrimmedNonEmpty(item.txts))

RECURSIVE ParseJobsFromHtml(_)
ParseJobsFromHtml(items) ==
  IF items = <<>> THEN <<>>
  ELSE IF KeepsItem(Head(items))
         THEN <<StubOf(Head(items))>> \o ParseJobsFromHtml(Tail(items))
         ELSE ParseJobsFromHtml(Tail(items))

\* a missing attribute, a null url
NoUrl == <<>>

\* extractExternalUrl: the .jv_howto link, then the data-href pattern
ExtractExternalUrl(pg) ==
  IF pg.howto # NoUrl /\ StartsWithHttp(pg.howto) THEN pg.howto
  ELSE IF pg.dataHref # NoUrl /\ StartsWithScheme(pg.dataHref) THEN pg.dataHref
  ELSE NoUrl

\* checkIfExternalCompany: the page fetched or not, and what it returns
CheckIfExternalCompany(pg, failed) ==
  IF failed THEN [isExternal |-> FALSE, externalUrl |-> NoUrl]
  ELSE IF pg.markers THEN [isExternal |-> TRUE, externalUrl |-> ExtractExternalUrl(pg)]
  ELSE [isExternal |-> FALSE, externalUrl |-> NoUrl]

\* isJobUrl: a job pattern matches the end of the url ...
JobDirs == {"/jobs/", "/job-detail/"}
MatchesJobPattern(u) ==
  Len(u) >= 2 /\ u[Len(u)] \in Words /\ u[Len(u) - 1] \in JobDirs

\* ... and no exclude pattern matches
MatchesExcludePattern(u) ==
  \/ \E i \in DOMAIN u : u[i] \in {"?q", "/blog/", "sitemap"}
  \/ Len(u) >= 2 /\ u[Len(u) - 1] = "/career/" /\ u[Len(u)] = "dev"

IsJobUrl(u) == MatchesJobPattern(u) /\ ~MatchesExcludePattern(u)

\* extractTitleFromUrl: the last part of the path, capitalised; the url when it has no
\* path or does not parse
Capitalised(w) == IF w = "x1" THEN "X1" ELSE IF w = "dev" THEN "Dev" ELSE w

ExtractTitleFromUrl(u) ==
  IF UrlParses(u) /\ u[Len(u)] \in Words THEN <<Capitalised(u[Len(u)])>> ELSE u

\* parseSitemapXml: the <loc> urls that are job urls
RECURSIVE ParseSitemapXml(_)
ParseSitemapXml(locs) ==
  IF locs = <<>> THEN <<>>
  ELSE IF IsJobUrl(Head(locs))
         THEN <<[title |-> ExtractTitleFromUrl(Head(locs)), link |-> Head(locs)]>>
                \o ParseSitemapXml(Tail(locs))
         ELSE ParseSitemapXml(Tail(locs))

\* parseExternalJobList 922-923: the text before the first separator, trimmed
RECURSIVE BeforeSeparator(_)
BeforeSeparator(text) ==
  IF text = <<>> \/ Head(text) = "|" THEN <<>>
  ELSE <<Head(text)>> \o BeforeSeparator(Tail(text))

\* parseExternalJobList 917
IsDetailLink(u) == \E i \in DOMAIN u : u[i] \in {"/job-detail/", "/career/"}

\* parseExternalJobList: the markdown links [* text](url) of the document
RECURSIVE ParseExternalJobList(_)
ParseExternalJobList(links) ==
  IF links = <<>> THEN <<>>
  ELSE LET title == Trim(BeforeSeparator(Trim(Head(links).text)))
       IN IF IsDetailLink(Head(links).url) /\ title # <<>>
            THEN <<[title |-> title, link |-> Head(links).url]>>
                   \o ParseExternalJobList(Tail(links))
            ELSE ParseExternalJobList(Tail(links))

\* searchCompanyJobs 683-689, 705-711: a sitemap or reader job as a FilteredJob
RECURSIVE ExternalJobs(_)
ExternalJobs(found) ==
  IF found = <<>> THEN <<>>
  ELSE <<[originalTitle |-> Head(found).title, simplifiedTitle |-> Head(found).title,
          link |-> Head(found).link, isRelevant |-> TRUE, isExperienceOnly |-> FALSE]>>
         \o ExternalJobs(Tail(found))

\* searchCompanyJobs 719-728, 738-747: an aggregator stub as a FilteredJob
RECURSIVE AggregatorJobs(_)
AggregatorJobs(stubs) ==
  IF stubs = <<>> THEN <<>>
  ELSE <<[originalTitle |-> Head(stubs).title, simplifiedTitle |-> Head(stubs).title,
          link |-> Head(stubs).link, isRelevant |-> TRUE, isExperienceOnly |-> FALSE,
          requirements |-> Head(stubs).requirements]>>
         \o AggregatorJobs(Tail(stubs))

(***************************************************************************)
(* Search runs: one request to the company search route                    *)
(* (src/app/api/crawl/route.ts, GET) and its call of searchCompanyJobs.    *)
(***************************************************************************)
\* the list pages the aggregator may answer with: items that are kept, items that are
\* experience-only, items whose markers allow entry level, items without a title, and
\* items with an absolute, a relative, an odd and a missing href
ListPages ==
  LET GoodItem == ListItem(<<"A">>, <<>>, <<"/view">>, <<>>)
      ExperienceOnlyItem == ListItem(<<"A">>, <<>>, <<"/view">>, << <<"g", "r">> >>)
      CareerAnyItem == ListItem(<<"A">>, <<>>, <<"/view">>, << <<"g", "r", "m", "k">> >>)
      SplitMarkerItem == ListItem(<<"A">>, <<>>, <<"/view">>, << <<"g">>, <<"r">> >>)
      CareerNewGradItem ==
        ListItem(<<"A">>, <<>>, <<"/view">>, << <<"g", "r">>, <<" ">>, <<"s", "i">> >>)
      InternCareerItem ==
        ListItem(<<"A">>, <<>>, <<"/view">>, << <<"n", "t">>, <<"g", "r">> >>)
      BlankTitleItem == ListItem(<<" ">>, <<>>, <<"/view">>, <<>>)
      LinkTitleItem == ListItem(<<>>, <<" ", "B">>, <<"https://h", "/view">>, <<>>)
      BareHttpItem == ListItem(<<"A">>, <<>>, <<"http", "x1">>, <<>>)
      NoHrefItem == ListItem(<<"B">>, <<>>, <<>>, <<>>)
  IN
  { <<>>,
    <<GoodItem>>,
    <<ExperienceOnlyItem>>,
    <<ExperienceOnlyItem, CareerAnyItem, SplitMarkerItem>>,
    <<CareerNewGradItem, InternCareerItem, BlankTitleItem>>,
    <<LinkTitleItem, BareHttpItem, NoHrefItem>>,
    <<GoodItem, GoodItem, ExperienceOnlyItem, GoodItem, GoodItem>>,
    <<GoodItem, GoodItem, GoodItem, GoodItem, GoodItem>>,
    <<GoodItem, GoodItem, GoodItem, ExperienceOnlyItem, GoodItem, GoodItem>> }

\* the posting pages checkIfExternalCompany may get
DetectHowtos == {NoUrl, <<"https://h", "/career/">>, <<"http", "x1">>, <<"/career/">>}
DetectPages ==
  [markers : BOOLEAN, howto : DetectHowtos, dataHref : {NoUrl, <<"https://h">>}]

\* the <loc> urls of the sitemaps a site may serve
SitemapDocs ==
  { <<>>,
    << <<"https://h", "/career/", "dev">>, <<"https://h", "/blog/", "/jobs/", "x1">> >>,
    << <<"https://h", "/jobs/", "dev", "?q">>, <<"https://h", "/jobs/", "x1">> >>,
    << <<"/jobs/", "x1">> >> }

\* the markdown the reader may return for a listing page: its length and its links
MarkdownLink(text, url) == [text |-> text, url |-> url]
ReaderListDocs ==
  { [size |-> 0, links |-> <<>>],
    [size |-> 100, links |-> <<MarkdownLink(<<"D">>, <<"https://h", "/career/", "x1">>)>>],
    [size |-> 400, links |-> <<>>],
    [size |-> 400,
     links |-> <<MarkdownLink(<<"D", " ", "|", "t">>, <<"https://h", "/career/", "x1">>),
                 MarkdownLink(<<"D">>, <<"https://h", "/blog/", "x1">>),
                 MarkdownLink(<<" ", "|", "t">>, <<"https://h", "/job-detail/", "x1">>)>>],
    [size |-> 400, links |-> <<MarkdownLink(<<"D">>, <<"/career/", "x1">>)>>] }

Call(kind, n) == [kind |-> kind, n |-> n]
TierReturn(tier, found) == [kind |-> "return", tier |-> tier, jobs |-> found]

\* searchCompanyJobs 643-648 and 766-771: the failure results
FailureResult(message) ==
  [success |-> FALSE, isExternal |-> FALSE, jobs |-> <<>>, error |-> message]

\* a mutant of EmptyResult: no sample posting is reported as a failure
EmptyResultAsFailure == FailureResult("no postings")

\* searchCompanyJobs 658-662: no sample posting
EmptyResult == [success |-> TRUE, isExternal |-> FALSE, jobs |-> <<>>]

\* a mutant of ListingResult: the jobs of the tier are not returned
ListingResultNoJobs(det, jobs) ==
  [success |-> TRUE, isExternal |-> det.isExternal, jobs |-> <<>>]

\* searchCompanyJobs 757-762: externalUrl || undefined drops a null url
ListingResult(det, jobs) ==
  IF det.externalUrl = NoUrl
    THEN [success |-> TRUE, isExternal |-> det.isExternal, jobs |-> jobs]
    ELSE [success |-> TRUE, isExternal |-> det.isExternal, externalUrl |-> det.externalUrl,
          jobs |-> jobs]

\* a mutant of SearchComplete: the result is reported as one more progress event
SearchCompleteAsProgress(res) == [event |-> "progress", success |-> TRUE, data |-> res]

SearchComplete(res) == [event |-> "complete", success |-> TRUE, data |-> res]

InitSearch ==
  /\ pc = "search"
  /\ request \in [hasCompany : BOOLEAN]
  /\ keywordPool = NoPool
  /\ IdleExtract
  /\ IdlePass
  /\ IdleRoute
  /\ page = [none |-> TRUE]
  /\ content = <<>>
  /\ events = <<>>
  /\ closed = FALSE
  /\ fault = FALSE
  /\ cancelled = FALSE
  /\ IdleSearch

\* what no action of a search run changes
searchIdle == <<keywordPool, extractVars, passVars, routeVars, request, page, content>>

\* crawl/route.ts 22-31, saramin.ts 637: the company check, the first progress event
SearchOpen ==
  /\ pc = "search"
  /\ IF ~request.hasCompany
       THEN /\ events' = Send(events, closed, ErrorEvent("no company"))
            /\ closed' = TRUE
            /\ pc' = "end"
       ELSE /\ events' = Send(events, closed, Progress(0))
            /\ pc' = "company"
            /\ UNCHANGED closed
  /\ UNCHANGED <<searchIdle, fault, cancelled, searchVars>>

\* saramin.ts 48-96, 638-652: findCompanyCode and the not-found return
FindCompanyCode ==
  /\ pc = "company"
  /\ calls' = Append(calls, Call("company", 1))
  /\ \E found \in BOOLEAN :
       IF found
         THEN /\ csn' = "csn"
              /\ events' = Send(events, closed, Progress(1))
              /\ pc' = "sample"
              /\ UNCHANGED searchResult
         ELSE /\ csn' = NoCsn
              /\ searchResult' = FailureResult("not found")
              /\ pc' = "respond"
              /\ UNCHANGED events
  /\ UNCHANGED <<searchIdle, closed, fault, cancelled, sampleJob, detection, attempt,
                 listPage, allJobs>>

\* saramin.ts 214-245, 653-663: getSampleJob and the no-sample return
GetSampleJob ==
  /\ pc = "sample"
  /\ calls' = Append(calls, Call("sample", 1))
  /\ \E failed \in BOOLEAN, fetched \in ListPages :
       LET jobs == IF failed THEN <<>> ELSE ParseJobsFromHtml(fetched)
       IN /\ listPage' = IF failed THEN listPage ELSE fetched
          /\ IF jobs = <<>>
               THEN /\ sampleJob' = Null
                    /\ searchResult' = EmptyResult
                    /\ pc' = "respond"
               ELSE /\ sampleJob' = jobs[1]
                    /\ pc' = "detect"
                    /\ UNCHANGED searchResult
  /\ UNCHANGED <<searchIdle, events, closed, fault, cancelled, csn, detection, attempt,
                 allJobs>>

\* saramin.ts 251-287, 666-672, 733: checkIfExternalCompany and the choice of the tiers
DetectExternal ==
  /\ pc = "detect"
  /\ calls' = Append(calls, Call("detect", 1))
  /\ \E failed \in BOOLEAN, fetched \in DetectPages :
       detection' = CheckIfExternalCompany(fetched, failed)
  /\ events' = Send(events, closed, Progress(2))
  /\ pc' = IF detection'.isExternal /\ detection'.externalUrl # NoUrl
             THEN "sitemap" ELSE "crawl"
  /\ attempt' = 1
  /\ UNCHANGED <<searchIdle, closed, fault, cancelled, csn, sampleJob, listPage, allJobs,
                 searchResult>>

\* part_005 15, saramin.ts 763-772: new URL(baseUrl) throws, searchCompanyJobs catches
SitemapBadUrl ==
  /\ pc = "sitemap"
  /\ attempt = 1
  /\ ~UrlParses(detection.externalUrl)
  /\ searchResult' = FailureResult("Invalid URL")
  /\ pc' = "respond"
  /\ UNCHANGED <<searchIdle, events, closed, fault, cancelled, csn, sampleJob, detection,
                 attempt, listPage, allJobs, calls>>

\* part_005 29-56, saramin.ts 677-693, 750-762: one sitemap url is tried
SitemapAttempt ==
  /\ pc = "sitemap"
  /\ UrlParses(detection.externalUrl)
  /\ \E failed \in BOOLEAN, doc \in SitemapDocs :
       LET jobs == IF failed THEN <<>> ELSE ParseSitemapXml(doc)
           called == Append(calls, Call("sitemap", attempt))
       IN IF jobs # <<>>
            THEN /\ calls' = Append(called, TierReturn("sitemap", jobs))
                 /\ events' = Send(events, closed, Progress(3))
                 /\ searchResult' = ListingResult(detection, ExternalJobs(jobs))
                 /\ pc' = "respond"
                 /\ UNCHANGED attempt
            ELSE IF attempt < SitemapUrlCount
            THEN /\ calls' = called
                 /\ attempt' = attempt + 1
                 /\ UNCHANGED <<events, searchResult, pc>>
            ELSE /\ calls' = Append(called, TierReturn("sitemap", <<>>))
                 /\ events' = Send(events, closed, Progress(2))
                 /\ attempt' = 1
                 /\ pc' = "reader_list"
                 /\ UNCHANGED searchResult
  /\ UNCHANGED <<searchIdle, closed, fault, cancelled, csn, sampleJob, detection, listPage,
                 allJobs>>

\* route.ts 706-756, 945-953, saramin.ts 695-715, 750-762: one attempt of the reader
ReaderListAttempt ==
  /\ pc = "reader_list"
  /\ \E failed \in BOOLEAN, doc \in ReaderListDocs :
       LET called == Append(calls, Call("reader", attempt))
           accepted == ~failed /\ doc.size > MinReaderLength
           jobs == IF accepted /\ ~(doc.size < MinContentLength)
                     THEN ParseExternalJobList(doc.links) ELSE <<>>
       IN IF ~accepted /\ attempt < ListRetries
            THEN /\ calls' = called
                 /\ events' = IF failed THEN Send(events, closed, Progress(2)) ELSE events
                 /\ attempt' = attempt + 1
                 /\ UNCHANGED <<searchResult, pc>>
            ELSE IF jobs # <<>>
            THEN /\ calls' = Append(called, TierReturn("reader", jobs))
                 /\ events' = Send(events, closed, Progress(3))
                 /\ searchResult' = ListingResult(detection, ExternalJobs(jobs))
                 /\ pc' = "respond"
                 /\ UNCHANGED attempt
            ELSE /\ calls' = Append(called, TierReturn("reader", <<>>))
                 /\ events' = Send(events, closed, Progress(2))
                 /\ attempt' = 1
                 /\ pc' = "crawl"
                 /\ UNCHANGED searchResult
  /\ UNCHANGED <<searchIdle, closed, fault, cancelled, csn, sampleJob, detection, listPage,
                 allJobs>>

\* a mutant of LastPage: a short page does not end the loop
LastPageShortIgnored(jobs, n) == jobs = <<>> \/ n = MaxPages

\* crawlCompanyJobs 175, 186-196: the loop ends after this page
LastPage(jobs, n) == jobs = <<>> \/ Len(jobs) < LastPageBelow \/ n = MaxPages

\* saramin.ts 175-207, 716-728, 735-762: one list page is requested
CrawlPage ==
  /\ pc = "crawl"
  /\ \E failed \in BOOLEAN, fetched \in ListPages :
       LET jobs == IF failed THEN <<>> ELSE ParseJobsFromHtml(fetched)
           called == Append(calls, Call("list", attempt))
           collected == allJobs \o jobs
       IN /\ listPage' = IF failed THEN listPage ELSE fetched
          /\ allJobs' = collected
          /\ IF failed \/ LastPage(jobs, attempt)
               THEN /\ calls' = Append(called, TierReturn("aggregator", collected))
                    /\ events' = Send(events, closed, Progress(3))
                    /\ searchResult' = ListingResult(detection, AggregatorJobs(collected))
                    /\ pc' = "respond"
                    /\ UNCHANGED attempt
               ELSE /\ calls' = called
                    /\ attempt' = attempt + 1
                    /\ UNCHANGED <<events, searchResult, pc>>
  /\ UNCHANGED <<searchIdle, closed, fault, cancelled, csn, sampleJob, detection>>

\* crawl/route.ts 33-43: the terminal event, and close() in finally
SearchRespond ==
  /\ pc = "respond"
  /\ events' = Send(events, closed,
                    IF searchResult.success THEN SearchComplete(searchResult)
                    ELSE ErrorEvent(searchResult.error))
  /\ closed' = TRUE
  /\ fault' = closed
  /\ pc' = "end"
  /\ UNCHANGED <<searchIdle, cancelled, searchVars>>

\* the client cancels the stream while searchCompanyJobs awaits an outbound call
SearchAwaits == {"company", "sample", "detect", "sitemap", "reader_list", "crawl"}

SearchClientCancel ==
  /\ pc \in SearchAwaits
  /\ ~closed
  /\ closed' = TRUE
  /\ cancelled' = TRUE
  /\ UNCHANGED <<pc, searchIdle, events, fault, searchVars>>

NextSearch ==
  \/ SearchClientCancel
  \/ SearchOpen
  \/ FindCompanyCode
  \/ GetSampleJob
  \/ DetectExternal
  \/ SitemapBadUrl
  \/ SitemapAttempt
  \/ ReaderListAttempt
  \/ CrawlPage
  \/ SearchRespond

SpecSearch == InitSearch /\ [][NextSearch]_vars

(***************************************************************************)
(* Both routes: a run is one request to the search route or to the detail  *)
(* route.                                                                  *)
(***************************************************************************)
InitRoutes == InitSearch \/ InitDetail

NextRoutes == NextSearch \/ NextDetail

SpecRoutes == InitRoutes /\ [][NextRoutes]_vars

\* the steps of the two handlers: every outbound call returns or times out, and the
\* handler goes on; the client's cancel is not among them
HandlerStep ==
  \/ SearchOpen
  \/ FindCompanyCode
  \/ GetSampleJob
  \/ DetectExternal
  \/ SitemapBadUrl
  \/ SitemapAttempt
  \/ ReaderListAttempt
  \/ CrawlPage
  \/ SearchRespond
  \/ RouteOpen
  \/ RouteLoadPool
  \/ FetchAggregatorPage
  \/ FetchExternalPage
  \/ ParseExternalContent
  \/ ParseAggregatorPage
  \/ FetchReaderContent
  \/ ParseReaderContent
  \/ RouteNoDetail
  \/ RouteComplete

SpecRoutesFair == SpecRoutes /\ WF_vars(HandlerStep)

(***************************************************************************)
(* Properties of the event stream (SpecRoutes, SpecRoutesFair).            *)
(***************************************************************************)
IsTerminal(e) == e.event \in {"complete", "error"}

\* progress events only, except that the last event may be a terminal one
ProgressThenTerminal(evs) == \A i \in DOMAIN evs : IsTerminal(evs[i]) => i = Len(evs)

EndsWithTerminal(evs) == evs # <<>> /\ IsTerminal(evs[Len(evs)])

\* C11 (as stated): on every request the events written to the stream are progress events
\* followed by exactly one terminal event, and nothing after it, on every path.
C11_ExactlyOneTerminal ==
  /\ ProgressThenTerminal(events)
  /\ pc = "end" => EndsWithTerminal(events)

\* C11 (amended): the events written to the stream are progress events followed by at
\* most one terminal event, and nothing after it; a request that ends without the client
\* having cancelled the stream has written exactly one terminal event.
C11_OneTerminalUnlessCancelled ==
  /\ ProgressThenTerminal(events)
  /\ (pc = "end" /\ ~cancelled) => EndsWithTerminal(events)

\* a request ended on an error path after progress events, the client still connected
C11_Witness ==
  /\ pc = "end"
  /\ ~cancelled
  /\ Len(events) >= 3
  /\ events[Len(events)].event = "error"

\* C12 (as stated): every request eventually emits a terminal complete or error event and
\* then closes the stream, even when a stage degraded.
C12_EventuallyTerminal == <>(pc = "end" /\ closed /\ EndsWithTerminal(events))

\* C12 (amended): every request eventually ends with the stream closed, and with a
\* terminal event written last unless the client cancelled the stream before it.
C12_EventuallyClosed == <>(pc = "end" /\ closed /\ (cancelled \/ EndsWithTerminal(events)))

\* a search whose reader retries were exhausted ended with a complete event
C12_Witness ==
  /\ pc = "end"
  /\ ~cancelled
  /\ \E i \in DOMAIN calls : calls[i] = Call("reader", ListRetries)
  /\ events[Len(events)].event = "complete"

\* C13: no operation on the stream raises out of the handler: events after a disconnect
\* are dropped silently, and close is never invoked on a stream that is already closed.
C13_ChannelNeverFaults == ~fault

(***************************************************************************)
(* Properties of the search runs (SpecSearch).                             *)
(***************************************************************************)
CallKinds == {calls[i].kind : i \in DOMAIN calls}

SearchEnded == pc \in {"respond", "end"}

HasSample == sampleJob # NoResult /\ sampleJob # Null

\* C14: no company code: success false, an error message, no jobs, and no sample,
\* detection or listing request; a code but no sample posting: success true, no jobs, no
\* error, and no detection or listing request.
C14_ShortCircuits ==
  /\ csn = NoCsn =>
       /\ ~searchResult.success
       /\ "error" \in DOMAIN searchResult
       /\ searchResult.jobs = <<>>
       /\ CallKinds = {"company"}
  /\ (csn = "csn" /\ sampleJob = Null) =>
       /\ searchResult.success
       /\ "error" \notin DOMAIN searchResult
       /\ searchResult.jobs = <<>>
       /\ CallKinds = {"company", "sample"}

\* a search that found the company and no sample posting ended with a complete event;
\* another outcome is the error event of a company that was not found
C14_Witness ==
  /\ pc = "end"
  /\ ~cancelled
  /\ csn = "csn"
  /\ sampleJob = Null
  /\ events[Len(events)].event = "complete"

TierKinds == {"sitemap", "reader", "list"}
TierRank(kind) == IF kind = "sitemap" THEN 1 ELSE IF kind = "reader" THEN 2 ELSE 3
TierName(kind) == IF kind = "list" THEN "aggregator" ELSE kind

IsReturn(c) == c.kind = "return"
TitlesAndLinks(jobs) == [i \in DOMAIN jobs |-> <<jobs[i].originalTitle, jobs[i].link>>]
StubTitlesAndLinks(stubs) == [i \in DOMAIN stubs |-> <<stubs[i].title, stubs[i].link>>]

\* C15: an external company: sitemap, then reader listing, then aggregator listing, a
\* tier only after every earlier tier returned nothing, and the jobs returned are those
\* of the first tier that returned any; an internal company: the aggregator listing only.
C15_TiersInOrder ==
  detection # NoResult =>
    LET external == detection.isExternal /\ detection.externalUrl # NoUrl
        returns == SelectSeq(calls, IsReturn)
        nonEmpty == {i \in DOMAIN returns : returns[i].jobs # <<>>}
    IN /\ ~external => CallKinds \cap {"sitemap", "reader"} = {}
       /\ \A i \in DOMAIN calls, j \in DOMAIN calls :
            (i < j /\ calls[i].kind \in TierKinds /\ calls[j].kind \in TierKinds)
              => TierRank(calls[i].kind) <= TierRank(calls[j].kind)
       /\ \A j \in DOMAIN calls :
            (external /\ calls[j].kind \in TierKinds) =>
              \A kind \in TierKinds :
                TierRank(kind) < TierRank(calls[j].kind) =>
                  \E i \in 1..(j - 1) :
                    /\ calls[i].kind = "return"
                    /\ calls[i].tier = TierName(kind)
                    /\ calls[i].jobs = <<>>
       /\ (SearchEnded /\ searchResult.success) =>
            IF nonEmpty = {} THEN searchResult.jobs = <<>>
            ELSE LET first == returns[CHOOSE i \in nonEmpty : \A k \in nonEmpty : i <= k]
                 IN TitlesAndLinks(searchResult.jobs) = StubTitlesAndLinks(first.jobs)

\* an external company whose sitemap and reader listing returned nothing got the
\* aggregator's jobs
C15_Witness ==
  /\ pc = "end"
  /\ detection # NoResult
  /\ detection.isExternal
  /\ CallKinds = {"company", "sample", "detect", "sitemap", "reader", "list", "return"}
  /\ searchResult.jobs # <<>>

\* C16: a failure inside a listing tier is never propagated: the next tier is still
\* attempted, and a search that got its sample posting returns a successful result.
C16_TierFailureNotPropagated ==
  (SearchEnded /\ HasSample) =>
    /\ searchResult.success
    /\ (detection.isExternal /\ detection.externalUrl # NoUrl) => "sitemap" \in CallKinds

\* C17: checkIfExternalCompany reports isExternal = true only with an external url, and
\* isExternal = false with a null url otherwise.
C17_ExternalOnlyWithUrl ==
  detection # NoResult =>
    /\ detection.isExternal => detection.externalUrl # NoUrl
    /\ ~detection.isExternal => detection.externalUrl = NoUrl

IsListCall(c) == c.kind = "list"
ListCalls == SelectSeq(calls, IsListCall)

\* the list pages requested are 1, 2, ... in order, at most MaxPages of them
PagesInOrder ==
  /\ Len(ListCalls) <= MaxPages
  /\ \A i \in DOMAIN ListCalls : ListCalls[i].n = i

\* one page request of crawlCompanyJobs: it goes on only after a page that gave at least
\* LastPageBelow stubs and was not page MaxPages, and it returns what it collected
PageStep ==
  (pc = "crawl" /\ calls' # calls) =>
    LET added == Len(allJobs') - Len(allJobs)
    IN IF pc' = "crawl"
         THEN added >= LastPageBelow /\ attempt < MaxPages /\ attempt' = attempt + 1
         ELSE /\ added < LastPageBelow \/ attempt = MaxPages
              /\ TitlesAndLinks(searchResult'.jobs) = StubTitlesAndLinks(allJobs')

\* C18: crawlCompanyJobs requests pages 1, 2, ... in order, stops after the first page
\* that yields no stub, fewer than 5 stubs, or fails, and in any case after page 20, and
\* returns the stubs collected so far.
C18_PagedCrawlStops == []PagesInOrder /\ [][PageStep]_vars

\* page 20 was requested and the crawl returned 100 stubs
C18_Witness ==
  /\ pc = "end"
  /\ Len(ListCalls) = MaxPages
  /\ Len(searchResult.jobs) = MaxPages * LastPageBelow

\* the text has the career marker and none of the new-grad, no-preference, intern markers
ExperienceOnlyText(text) ==
  /\ IsInfix(CareerMarker, text)
  /\ \A marker \in {NewGradMarker, AnyMarker, InternMarker} : ~IsInfix(marker, text)

ConditionText(item) == JoinWithSpace(TrimmedNonEmpty(item.txts))

\* C19: an item of a list page is kept iff its title is non-empty and it is not
\* experience-only; no stub is experience-only; the filtered count is below the raw count
\* whenever a raw item is experience-only.
C19_KeepsEntryLevel ==
  LET stubs == ParseJobsFromHtml(listPage)
      wanted == {i \in DOMAIN listPage :
                   TitleOf(listPage[i]) # <<>> /\ ~ExperienceOnlyText(ConditionText(listPage[i]))}
      rawOnly == {i \in DOMAIN listPage : ExperienceOnlyText(ConditionText(listPage[i]))}
  IN /\ Len(stubs) = Cardinality(wanted)
     /\ \A i \in wanted : \E k \in DOMAIN stubs : stubs[k] = StubOf(listPage[i])
     /\ \A k \in DOMAIN stubs : \E i \in wanted : stubs[k] = StubOf(listPage[i])
     /\ rawOnly # {} => Len(stubs) < Len(listPage)
     /\ \A k \in DOMAIN allJobs : ~ExperienceOnlyText(JoinWithSpace(allJobs[k].requirements))
     /\ HasSample => ~ExperienceOnlyText(JoinWithSpace(sampleJob.requirements))

\* a crawled page held an experience-only item next to items with the intern and the
\* new-grad marker, and the latter were collected
C19_Witness ==
  /\ pc = "end"
  /\ \E i \in DOMAIN listPage : ExperienceOnlyText(ConditionText(listPage[i]))
  /\ \E k \in DOMAIN allJobs : IsInfix(CareerMarker, JoinWithSpace(allJobs[k].requirements))

IsAbsoluteUrl(u) == u # <<>> /\ u[1] \in Origins

\* C20: every job of the result has a non-empty title and an absolute link, whichever
\* tier produced it and whatever the fetched document holds.
C20_TitleAndAbsoluteLink ==
  searchResult # NoResult =>
    \A i \in DOMAIN searchResult.jobs :
      /\ searchResult.jobs[i].originalTitle # <<>>
      /\ IsAbsoluteUrl(searchResult.jobs[i].link)

(***************************************************************************)
(* Title matching in the reader library                                    *)
(* (src/app/api/job-with-courses/route.ts, calculateSimilarity and         *)
(* findJobDetailUrl).  A title is a sequence of characters; scores are     *)
(* integers, one hundred times the score of the code.                      *)
(***************************************************************************)
ExactScore == 100           \* calculateSimilarity: return 1.0
BaseScore == 90             \* calculateSimilarity: 0.9
WordDiffPenalty == 15       \* calculateSimilarity: wordCountDiff * 0.15
FloorScore == 10            \* calculateSimilarity: Math.max(0.1, similarity)

\* the characters of the class [\w\s]
IsTitleChar(c) == c \in {"r", "n", "c", "x", " "}

\* s.replace(/\([^)]*\)/g, "")
RECURSIVE RemoveParens(_)
RemoveParens(s) ==
  IF s = <<>> THEN <<>>
  ELSE IF Head(s) = "(" /\ \E i \in 2..Len(s) : s[i] = ")"
    THEN LET close == CHOOSE i \in 2..Len(s) :
                        s[i] = ")" /\ \A j \in 2..(i - 1) : s[j] # ")"
         IN RemoveParens(SubSeq(s, close + 1, Len(s)))
    ELSE <<Head(s)>> \o RemoveParens(Tail(s))

\* calculateSimilarity 765-769: normalize
NormalizeTitle(s) == Trim(SelectSeq(RemoveParens(ToLowerCase(s)), IsTitleChar))

\* the first word of a string that does not start with a blank
RECURSIVE FirstWord(_)
FirstWord(s) ==
  IF s = <<>> \/ IsSpace(Head(s)) THEN <<>> ELSE <<Head(s)>> \o FirstWord(Tail(s))

\* s.split(/\s+/), without the empty strings
RECURSIVE SplitOnSpace(_)
SplitOnSpace(s) ==
  LET t == TrimStart(s)
  IN IF t = <<>> THEN <<>>
     ELSE LET w == FirstWord(t)
          IN <<w>> \o SplitOnSpace(SubSeq(t, Len(w) + 1, Len(t)))

LongerThanOne(w) == Len(w) > 1

\* calculateSimilarity 780-781: .split(/\s+/).filter(w => w.length > 1)
TitleWords(s) == SelectSeq(SplitOnSpace(s), LongerThanOne)

\* word.includes(keyword) || keyword.includes(word)
Overlaps(word, keyword) == IsInfix(keyword, word) \/ IsInfix(word, keyword)

Abs(n) == IF n < 0 THEN -n ELSE n

Max(a, b) == IF a >= b THEN a ELSE b

\* mutant: the score is not kept at or above 0.1
CalculateSimilarityNoFloor(searchTitle, linkTitle) ==
  LET normalizedSearch == NormalizeTitle(searchTitle)
      normalizedLink == NormalizeTitle(linkTitle)
      searchWords == TitleWords(normalizedSearch)
      linkWords == TitleWords(normalizedLink)
      allKeywordsMatch ==
        \A i \in DOMAIN searchWords :
          \E j \in DOMAIN linkWords : Overlaps(linkWords[j], searchWords[i])
      wordCountDiff == Abs(Len(searchWords) - Len(linkWords))
  IN IF normalizedSearch = normalizedLink THEN ExactScore
     ELSE IF ~allKeywordsMatch THEN 0
     ELSE BaseScore - wordCountDiff * WordDiffPenalty

\* calculateSimilarity
CalculateSimilarity(searchTitle, linkTitle) ==
  LET normalizedSearch == NormalizeTitle(searchTitle)
      normalizedLink == NormalizeTitle(linkTitle)
      searchWords == TitleWords(normalizedSearch)
      linkWords == TitleWords(normalizedLink)
      allKeywordsMatch ==
        \A i \in DOMAIN searchWords :
          \E j \in DOMAIN linkWords : Overlaps(linkWords[j], searchWords[i])
      wordCountDiff == Abs(Len(searchWords) - Len(linkWords))
  IN IF normalizedSearch = normalizedLink THEN ExactScore
     ELSE IF ~allKeywordsMatch THEN 0
     ELSE Max(FloorScore, BaseScore - wordCountDiff * WordDiffPenalty)

\* the items of a listing document: a link [* title](url), or a url in the text
StarLink(title, url) == [kind |-> "link", title |-> title, url |-> url]
BareUrl(url) == [kind |-> "url", url |-> url]

\* findJobDetailUrl 828-829: the listing's links in document order, with their scores
RECURSIVE ScoredLinks(_, _)
ScoredLinks(doc, jobTitle) ==
  IF doc = <<>> THEN <<>>
  ELSE IF Head(doc).kind = "link"
    THEN <<[title |-> Head(doc).title, url |-> Head(doc).url,
            score |-> CalculateSimilarity(jobTitle, Head(doc).title)]>>
           \o ScoredLinks(Tail(doc), jobTitle)
    ELSE ScoredLinks(Tail(doc), jobTitle)

RECURSIVE InsertByScore(_, _)
InsertByScore(s, x) ==
  IF s = <<>> THEN <<x>>
  ELSE IF Head(s).score >= x.score
    THEN <<Head(s)>> \o InsertByScore(Tail(s), x)
    ELSE <<x>> \o s

\* mutant: equal scores are put in reverse document order
RECURSIVE SortByScoreReversed(_)
SortByScoreReversed(s) ==
  IF s = <<>> THEN <<>>
  ELSE InsertByScore(SortByScoreReversed(Tail(s)), Head(s))

\* candidates.sort((a, b) => b.score - a.score): stable, descending
RECURSIVE SortByScore(_)
SortByScore(s) ==
  IF s = <<>> THEN <<>>
  ELSE InsertByScore(SortByScore(SubSeq(s, 1, Len(s) - 1)), s[Len(s)])

\* the url matches /https:\/\/[^\s"']+job-detail[^\s"')]+/
MatchesDetailScan(u) ==
  /\ StartsWithScheme(u)
  /\ \E i \in 2..(Len(u) - 1) : u[i] = "/job-detail/"

\* listPageContent.match(urlPattern): the urls of the document that match, in order
RECURSIVE DetailScan(_)
DetailScan(doc) ==
  IF doc = <<>> THEN <<>>
  ELSE IF MatchesDetailScan(Head(doc).url)
    THEN <<Head(doc).url>> \o DetailScan(Tail(doc))
    ELSE DetailScan(Tail(doc))

(***************************************************************************)
(* Runs of findJobDetailUrl.  content is the listing document, request     *)
(* holds the jobTitle argument, attempt is the number of links the loop    *)
(* has taken, allJobs the candidates, searchResult the value returned.     *)
(***************************************************************************)
MaxListingItems == 3   \* items of one listing document

LongTitle ==
  <<"r", "n", " ", "n", "r", " ", "r", "r", " ", "n", "n", " ", "c", "c", " ", "x", "x",
    " ", "r", "x">>

\* the jobTitle arguments
SampleTitles ==
  { <<>>,
    <<"r", "n">>,
    <<"c", " ", "r", "n">>,
    <<"r", "n", " ", "n", "r">>,
    <<"n", "r", "+">> }

DetailUrl == <<"https://h", "/job-detail/", "x1">>
CareerUrl == <<"https://h", "/career/", "dev">>

ListingItems ==
  { StarLink(<<"r", "n">>, DetailUrl),
    StarLink(<<"R", "n">>, CareerUrl),
    StarLink(<<"r", "n", " ", "(", "c", ")">>, DetailUrl),
    StarLink(<<"r", "n", " ", "n", "r">>, CareerUrl),
    StarLink(<<"r", "n", "n">>, DetailUrl),
    StarLink(<<"n", "r", "+">>, CareerUrl),
    StarLink(LongTitle, DetailUrl),
    BareUrl(<<"https://h", "/job-detail/", "dev">>) }

InitTitle ==
  /\ pc = "find"
  /\ request \in [jobTitle : SampleTitles]
  /\ content \in SeqsUpTo(ListingItems, MaxListingItems)
  /\ keywordPool = NoPool
  /\ IdleExtract
  /\ IdlePass
  /\ IdleRoute
  /\ page = [none |-> TRUE]
  /\ events = <<>>
  /\ closed = FALSE
  /\ fault = FALSE
  /\ cancelled = FALSE
  /\ IdleSearch

titleIdle ==
  <<keywordPool, extractVars, passVars, routeVars, request, page, content, events, closed,
    fault, cancelled, csn, sampleJob, detection, listPage, calls>>

\* findJobDetailUrl 816-826: one turn of the loop over the links of the listing
ScanLink ==
  /\ pc = "find"
  /\ LET links == ScoredLinks(content, request.jobTitle)
     IN /\ attempt < Len(links)
        /\ attempt' = attempt + 1
        /\ allJobs' = IF links[attempt + 1].score > 0
                        THEN Append(allJobs, links[attempt + 1])
                        ELSE allJobs
  /\ UNCHANGED <<pc, searchResult, titleIdle>>

\* findJobDetailUrl 828-846: the loop is over; the best candidate, else the first url of
\* the coarse scan, else null
ReturnDetailUrl ==
  /\ pc = "find"
  /\ attempt = Len(ScoredLinks(content, request.jobTitle))
  /\ LET candidates == SortByScore(allJobs)
         urls == DetailScan(content)
     IN /\ allJobs' = candidates
        /\ searchResult' =
             IF candidates # <<>> THEN [url |-> candidates[1].url]
             ELSE IF urls # <<>> THEN [url |-> urls[1]]
             ELSE Null
  /\ pc' = "found"
  /\ UNCHANGED <<attempt, titleIdle>>

NextTitle ==
  \/ ScanLink
  \/ ReturnDetailUrl

SpecTitle == InitTitle /\ [][NextTitle]_vars

(***************************************************************************)
(* Properties of the title matching (SpecTitle).                           *)
(***************************************************************************)
\* some token of a has no token of b that contains it or is contained in it
SomeTokenUnmatched(a, b) ==
  \E i \in DOMAIN a : \A j \in DOMAIN b : ~Overlaps(b[j], a[i])

\* what the claim gives for the score of a search title and a link title whose tokens are
\* searchTokens and linkTokens
ClaimedScore(searchTitle, linkTitle, searchTokens, linkTokens) ==
  IF NormalizeTitle(searchTitle) = NormalizeTitle(linkTitle) THEN ExactScore
  ELSE IF SomeTokenUnmatched(searchTokens, linkTokens) THEN 0
  ELSE Max(FloorScore, BaseScore - WordDiffPenalty * Abs(Len(searchTokens) - Len(linkTokens)))

ScoreOfSelf ==
  LET own == ScoredLinks(<<StarLink(request.jobTitle, DetailUrl)>>, request.jobTitle)
  IN own[1].score

BestLink(links) ==
  CHOOSE i \in DOMAIN links :
    /\ \A j \in DOMAIN links : links[j].score <= links[i].score
    /\ \A j \in 1..(i - 1) : links[j].score < links[i].score

\* C25: findJobDetailUrl returns the url of the link with the highest score above zero,
\* the first such link of the document among equals; the first url of the coarse scan
\* only when no link scores above zero; null only when that scan finds nothing.
C25_BestLinkFirst ==
  pc = "found" =>
    LET links == ScoredLinks(content, request.jobTitle)
        urls == DetailScan(content)
    IN IF \E i \in DOMAIN links : links[i].score > 0
         THEN searchResult = [url |-> links[BestLink(links)].url]
         ELSE IF urls # <<>> THEN searchResult = [url |-> urls[1]]
         ELSE searchResult = Null

\* two links share the highest score, the first of them is not the last link scored,
\* and the run returned
C25_Witness ==
  /\ pc = "found"
  /\ LET links == ScoredLinks(content, request.jobTitle)
     IN \E i, j \in DOMAIN links :
          /\ i < j
          /\ links[i].score = links[j].score
          /\ links[i].score > 0
          /\ links[i].url # links[j].url
          /\ BestLink(links) = i
          /\ \E k \in DOMAIN links : k < i /\ links[k].score > 0

(***************************************************************************)
(* The Company Resolver (src/lib/saramin.ts, findCompanyCode).  A company  *)
(* name is a sequence of characters: letters, blanks, parentheses, "j" and *)
(* "s" for two syllables of the legal-entity word, "m" for its one-letter  *)
(* sign.                                                                   *)
(***************************************************************************)
\* the characters outside the class [()주식회사㈜\s]
NotEntityChar(c) == c \notin {"(", ")", "j", "s", "m", " "}

\* mutant: replace without the g flag, only the first character of the class is removed
RECURSIVE NormalizeCompanyFirstOnly(_)
NormalizeCompanyFirstOnly(name) ==
  IF name = <<>> THEN <<>>
  ELSE IF ~NotEntityChar(LowerChar(Head(name))) THEN ToLowerCase(Tail(name))
  ELSE <<LowerChar(Head(name))>> \o NormalizeCompanyFirstOnly(Tail(name))

\* findCompanyCode 64-65: normalize
NormalizeCompany(name) == SelectSeq(ToLowerCase(name), NotEntityChar)

\* an anchor of the search result page whose href contains company-info/view: the csn
\* parameter of its href (NoCsn without one) and its text
Anchor(code, text) == [csn |-> code, text |-> text]

\* findCompanyCode 73-78: the test on one anchor
NameMatches(anchor, companyName) ==
  LET normalizedSearchName == NormalizeCompany(companyName)
      normalizedCompanyText == NormalizeCompany(Trim(anchor.text))
  IN \/ IsInfix(normalizedSearchName, normalizedCompanyText)
     \/ IsInfix(normalizedCompanyText, normalizedSearchName)

(***************************************************************************)
(* Runs of findCompanyCode.  request holds the companyName argument,       *)
(* listPage the anchors of the page, attempt the number of anchors         *)
(* visited, csn the value returned.                                        *)
(***************************************************************************)
MaxAnchors == 3   \* anchors of one search result page

CompanyNames ==
  { <<"r", "n">>,
    <<"(", "j", ")", "R", "n">>,
    <<"R", "n", " ", "j", "s">>,
    <<"n", "r">>,
    <<"(", "j", ")">>,
    <<"m", " ", "r">> }

CompanyAnchors ==
  { Anchor("c1", <<>>),
    Anchor(NoCsn, <<>>),
    Anchor("c2", <<"r", "n">>),
    Anchor(NoCsn, <<"r", "n">>),
    Anchor("c3", <<" ", "R", "n", "n", " ", "(", "j", ")">>),
    Anchor("c4", <<"n", "r">>) }

InitCompany ==
  /\ pc = "company_page"
  /\ request \in [company : CompanyNames]
  /\ keywordPool = NoPool
  /\ IdleExtract
  /\ IdlePass
  /\ IdleRoute
  /\ page = [none |-> TRUE]
  /\ content = <<>>
  /\ events = <<>>
  /\ closed = FALSE
  /\ fault = FALSE
  /\ cancelled = FALSE
  /\ IdleSearch

companyIdle ==
  <<keywordPool, extractVars, passVars, routeVars, request, page, content, events, closed,
    fault, cancelled, sampleJob, detection, allJobs, calls, searchResult>>

\* findCompanyCode 52-61, 91-95: the search result page is fetched; a failure and a page
\* without anchors return null
FetchCompanyPage ==
  /\ pc = "company_page"
  /\ \/ /\ csn' = NoCsn
        /\ pc' = "company_end"
        /\ UNCHANGED listPage
     \/ \E anchors \in SeqsUpTo(CompanyAnchors, MaxAnchors) :
          /\ listPage' = anchors
          /\ IF anchors = <<>>
               THEN csn' = NoCsn /\ pc' = "company_end"
               ELSE pc' = "anchors" /\ UNCHANGED csn
  /\ UNCHANGED <<attempt, companyIdle>>

\* findCompanyCode 71-90: one turn of .each(); the first anchor that matches and has a
\* csn ends the loop, and so does the last anchor
VisitAnchor ==
  /\ pc = "anchors"
  /\ attempt < Len(listPage)
  /\ attempt' = attempt + 1
  /\ LET anchor == listPage[attempt + 1]
     IN IF NameMatches(anchor, request.company) /\ anchor.csn # NoCsn
          THEN csn' = anchor.csn /\ pc' = "company_end"
          ELSE IF attempt + 1 = Len(listPage)
            THEN csn' = NoCsn /\ pc' = "company_end"
            ELSE UNCHANGED <<csn, pc>>
  /\ UNCHANGED <<listPage, companyIdle>>

NextCompany ==
  \/ FetchCompanyPage
  \/ VisitAnchor

SpecCompany == InitCompany /\ [][NextCompany]_vars

(***************************************************************************)
(* Properties of the Company Resolver (SpecCompany).                       *)
(***************************************************************************)
Idempotent(x) == NormalizeCompany(NormalizeCompany(x)) = NormalizeCompany(x)

\* C22: the company-name normalization is idempotent, for the query and for the text of
\* every anchor it is applied to.
C22_NormalizeIdempotent ==
  pc \in {"anchors", "company_end"} =>
    /\ Idempotent(request.company)
    /\ \A i \in DOMAIN listPage : Idempotent(Trim(listPage[i].text))

\* a run that normalized a query with a legal-entity marker, parentheses, a blank and a
\* capital letter, and an anchor text with the same
C22_Witness ==
  /\ pc = "company_end"
  /\ {"(", "j", "R"} \subseteq {request.company[i] : i \in DOMAIN request.company}
  /\ NormalizeCompany(request.company) = <<"r", "n">>
  /\ \E i \in 1..attempt :
       /\ " " \in {listPage[i].text[k] : k \in DOMAIN listPage[i].text}
       /\ NormalizeCompany(listPage[i].text) # listPage[i].text

\* a and b are in a substring relation through a non-empty string
RelatedNames(a, b) == a # <<>> /\ b # <<>> /\ (IsInfix(a, b) \/ IsInfix(b, a))

ClaimedAnchor(anchor) ==
  /\ anchor.csn # NoCsn
  /\ RelatedNames(NormalizeCompany(Trim(anchor.text)), NormalizeCompany(request.company))

\* C30: findCompanyCode returns the code of the first anchor that carries a company code
\* and whose normalized text and the normalized query are in a substring relation
\* through a non-empty string, and null when there is none.
C30_FirstNamedAnchor ==
  (pc = "company_end" /\ listPage # <<>>) =>
    IF \E i \in DOMAIN listPage : ClaimedAnchor(listPage[i])
      THEN LET first == CHOOSE i \in DOMAIN listPage :
                          /\ ClaimedAnchor(listPage[i])
                          /\ \A j \in 1..(i - 1) : ~ClaimedAnchor(listPage[j])
           IN csn = listPage[first].csn
      ELSE csn = NoCsn

(***************************************************************************)
(* Runs of the reader library, one request at a time                       *)
(* (src/app/api/job-with-courses/route.ts, fetchWithJina and its callers   *)
(* fetchExternalJobList, fetchExternalJobContent, fetchExternalJobDetail). *)
(* request holds the caller, attempt the loop variable of fetchWithJina,   *)
(* calls the requests made and the backoffs waited, content the value the  *)
(* caller returned.                                                        *)
(***************************************************************************)
ContentRetries == 3         \* fetchExternalJobContent: fetchWithJina(jobDetailUrl, 3, ...)
DetailListRetries == 1      \* fetchExternalJobDetail: fetchWithJina(externalUrl, 1, ...)
DetailPageRetries == 3      \* fetchExternalJobDetail: fetchWithJina(detailUrl, 3, ...)
BackoffMs == 2000           \* fetchWithJina: setTimeout(resolve, 2000)

ReaderCallers == {"fetchExternalJobList", "fetchExternalJobContent", "fetchExternalJobDetail"}

\* the maxRetries argument of the fetchWithJina call the run is in
MaxRetriesAt(caller, position) ==
  CASE caller = "fetchExternalJobList" -> ListRetries
    [] caller = "fetchExternalJobContent" -> ContentRetries
    [] position = "jina_list" -> DetailListRetries
    [] OTHER -> DetailPageRetries

\* one axios.get of fetchWithJina: the call it belongs to, the attempt, and the length
\* of response.data (-1 when the request threw)
ReaderRequest(position, n, size) ==
  [kind |-> "request", call |-> position, n |-> n, size |-> size]

Backoff(position) == [kind |-> "backoff", call |-> position, n |-> BackoffMs]

InitReader ==
  /\ pc = "jina_list"
  /\ request \in [caller : ReaderCallers]
  /\ attempt = 1
  /\ keywordPool = NoPool
  /\ IdleExtract
  /\ IdlePass
  /\ IdleRoute
  /\ page = [none |-> TRUE]
  /\ content = <<>>
  /\ events = <<>>
  /\ closed = FALSE
  /\ fault = FALSE
  /\ cancelled = FALSE
  /\ csn = UnsetCsn
  /\ sampleJob = NoResult
  /\ detection = NoResult
  /\ listPage = <<>>
  /\ allJobs = <<>>
  /\ calls = <<>>
  /\ searchResult = NoResult

readerIdle ==
  <<keywordPool, extractVars, passVars, routeVars, request, page, events, closed, fault,
    cancelled, csn, sampleJob, detection, listPage, allJobs, searchResult>>

\* fetchWithJina 706-741, 755-756 and the caller's code after it returns: one attempt.
\* A response longer than 100 characters is returned; an exception before the last
\* attempt leads to the backoff; a short response goes to the next attempt at once.
ReaderAttempt ==
  /\ pc \in {"jina_list", "jina_page"}
  /\ \E failed \in BOOLEAN, doc \in ReaderDocs, found \in BOOLEAN :
       LET maxRetries == MaxRetriesAt(request.caller, pc)
           size == IF failed THEN -1 ELSE RawLength(doc)
           accepted == ~failed /\ doc # <<>> /\ size > MinReaderLength
           returned == IF accepted THEN doc ELSE <<>>
           usable == ~(returned = <<>> \/ RawLength(returned) < MinContentLength)
       IN /\ calls' = Append(calls, ReaderRequest(pc, attempt, size))
          /\ IF ~accepted /\ attempt < maxRetries
               THEN /\ attempt' = IF failed THEN attempt ELSE attempt + 1
                    /\ pc' = IF ~failed THEN pc
                             ELSE IF pc = "jina_list" THEN "backoff_list" ELSE "backoff_page"
                    /\ UNCHANGED content
               ELSE IF request.caller = "fetchExternalJobDetail" /\ pc = "jina_list"
                       /\ usable /\ found
                 THEN /\ attempt' = 1
                      /\ pc' = "jina_page"
                      /\ UNCHANGED content
                 ELSE /\ content' =
                           IF request.caller = "fetchExternalJobDetail" /\ pc = "jina_list"
                             THEN <<>>
                             ELSE IF usable THEN returned ELSE <<>>
                      /\ pc' = "jina_end"
                      /\ UNCHANGED attempt
  /\ UNCHANGED readerIdle

\* fetchWithJina 746-750, 706: the backoff after an exception, then the next attempt
ReaderBackoff ==
  /\ pc \in {"backoff_list", "backoff_page"}
  /\ calls' = Append(calls, Backoff(IF pc = "backoff_list" THEN "jina_list" ELSE "jina_page"))
  /\ attempt' = attempt + 1
  /\ pc' = IF pc = "backoff_list" THEN "jina_list" ELSE "jina_page"
  /\ UNCHANGED <<content, readerIdle>>

NextReader ==
  \/ ReaderAttempt
  \/ ReaderBackoff

SpecReader == InitReader /\ [][NextReader]_vars

(***************************************************************************)
(* Properties of the reader library (SpecReader).                          *)
(***************************************************************************)
RequestsOf(position) ==
  {i \in DOMAIN calls : calls[i].kind = "request" /\ calls[i].call = position}

AtMostMaxRetries ==
  \A position \in {"jina_list", "jina_page"} :
    /\ Cardinality(RequestsOf(position)) <= MaxRetriesAt(request.caller, position)
    /\ MaxRetriesAt(request.caller, position) <= 3

\* no request follows a response longer than 100 characters in the same call
StopsAtFirstLongResponse ==
  \A i \in DOMAIN calls : \A j \in DOMAIN calls :
    (i < j /\ calls[i].kind = "request" /\ calls[j].kind = "request"
       /\ calls[i].call = calls[j].call)
      => calls[i].size <= MinReaderLength

ReturnsFirstLongResponse ==
  pc = "jina_end" =>
    LET last == calls[Len(calls)]
    IN /\ content # <<>> => RawLength(content) = last.size /\ last.size > MinReaderLength
       /\ (\A i \in DOMAIN calls : calls[i].kind = "request" => calls[i].size <= MinReaderLength)
            => content = <<>>

BackoffBetweenAttempts ==
  \A i \in DOMAIN calls :
    (i < Len(calls) /\ calls[i].kind = "request" /\ calls[i + 1].kind = "request"
       /\ calls[i].call = calls[i + 1].call)
      => FALSE

DetailRequestsBounded ==
  request.caller = "fetchExternalJobDetail" =>
    /\ Cardinality(RequestsOf("jina_list")) <= 1
    /\ Cardinality(RequestsOf("jina_page")) <= 3

\* C23: fetchWithJina makes at most maxRetries attempts, returns the first response
\* longer than 100 characters and the empty string when there is none, and waits the
\* 2 second backoff between any two consecutive attempts; no caller asks for more than
\* 3 attempts, and fetchExternalJobDetail issues at most 1 list request and 3 detail
\* requests.
C23_BoundedRetriesWithBackoff ==
  /\ AtMostMaxRetries
  /\ StopsAtFirstLongResponse
  /\ ReturnsFirstLongResponse
  /\ BackoffBetweenAttempts
  /\ DetailRequestsBounded

(***************************************************************************)
(* The strategies of the Posting Detail Resolver (SpecDetail).             *)
(***************************************************************************)
\* the step reports failure: the resolver returns null
ReportsNull == jobDetail # Null /\ jobDetail' = Null

\* the step starts the direct external url strategy (getExternalJobDetail)
StartsDirectExternal == pc # "reader" /\ pc' = "reader"

\* the positions of getJobDetail after the title-matched external page was tried
AfterExternalPage == {"external", "parse_external", "parse_page"}

\* C24: the resolver tries the aggregator HTML, then the title-matched external detail
\* page, then the direct external url, each only when the one before gave no usable
\* text, and returns null only after all of them failed: null is reported by the last
\* strategy only, and the last strategy starts only after the external page was tried.
C24_FallbackChain ==
  [][/\ ReportsNull => pc = "reader"
     /\ StartsDirectExternal => pc \in AfterExternalPage]_vars

(***************************************************************************)
(* The used-set and the lists of a matching pass (SpecMatch).              *)
(***************************************************************************)
\* the second loop of the pass is over and the mapping is about to be returned
PassOver == pc = "assign" /\ idx > Len(skills)

\* the course ids the used-set held when the pass at work began, if the pass before it
\* marked exactly the courses it returned
UsedBeforePass == IF pass = "required" THEN {} ELSE AllCourseIds(requiredCourses)

UsedIsShown == PassOver => usedCourseIds = UsedBeforePass \cup AllCourseIds(result)

UsedOnlyGrows == usedCourseIds \subseteq usedCourseIds'

\* C26: after a matching pass the course ids the pass added to the used-set are the
\* course ids of the mapping it returns, and the used-set only grows.
C26_UsedEqualsShown == []UsedIsShown /\ [][UsedOnlyGrows]_vars

\* C27: after a matching pass a skill's list has fewer than 5 courses only if every
\* course of the lookup result whose keyword list contains the skill's keyword is in the
\* used-set.
C27_ShortOnlyWhenExhausted ==
  PassOver =>
    \A i \in DOMAIN skills :
      Len(result[skills[i].display]) < MaxCoursesPerSkill =>
        \A p \in DOMAIN allCourses :
          HasKeywordOf(allCourses[p], skills[i]) => allCourses[p].id \in usedCourseIds

(***************************************************************************)
(* The result of a search and the detail requests made from it             *)
(* (SpecSearch; src/app/page.tsx 116-117 sends the result's isExternal     *)
(* flag back with every job link).                                         *)
(***************************************************************************)
\* the tier whose jobs the result holds is the aggregator listing
JobsFromAggregator ==
  \E i \in DOMAIN calls :
    calls[i].kind = "return" /\ calls[i].tier = "aggregator" /\ calls[i].jobs # <<>>

\* C28: whenever the result of searchCompanyJobs reports isExternal = true, externalUrl
\* is present and every job link of the result was produced by an external tier, never
\* by the aggregator listing.
C28_ExternalResultHasExternalLinks ==
  (searchResult # NoResult /\ searchResult.isExternal) =>
    /\ "externalUrl" \in DOMAIN searchResult
    /\ searchResult.jobs # <<>> => ~JobsFromAggregator

(***************************************************************************)
(* Pagination of the aggregator listing and the entry filter (SpecSearch). *)
(***************************************************************************)
\* the step ends the crawl before page 20 on a page that was fetched and parsed
StopsOnParsedPage ==
  /\ pc = "crawl"
  /\ pc' = "respond"
  /\ attempt < MaxPages
  /\ ~(listPage' = listPage /\ allJobs' = allJobs)

\* the page holds fewer postings than a page that is followed by another one
SourceLastPage(items) == Len(items) < LastPageBelow

\* C29: when no request fails the crawl does not stop before the source's last page
\* because the entry filter removed items of a full page: a parsed page that ends the
\* crawl before page 20 is a page on which the source itself lists fewer than a full
\* page of postings.
C29_StopsOnlyOnLastPage == [][StopsOnParsedPage => SourceLastPage(listPage')]_vars

====
